---- MODULE Spec2Model ----
(***************************************************************************)
(* Craft-Based Daily Report (streamlit_app.py): the date normaliser, the   *)
(* numeric coercer, the craft lookup, the aggregator build_report, the     *)
(* table data of make_pdf and the top-level upload / validate / build      *)
(* flow of the script.                                                     *)
(*                                                                         *)
(* Text is a sequence of one-character strings.  A Python int is a sign    *)
(* and a magnitude of any size; a Python float is the IEEE-754 double it   *)
(* is, a sign and an odd magnitude times a power of two, and float         *)
(* arithmetic rounds to the nearest double, ties to even.  A function that *)
(* can raise returns the value Raise instead of a result.                  *)
(*                                                                         *)
(* pd.to_datetime is pandas 2.x (Timestamps are int64 nanoseconds) over    *)
(* dateutil 2.9; the repository pins neither.  The machine keeps UTC.      *)
(***************************************************************************)
EXTENDS Integers, Sequences, FiniteSets, TLC

\* ------------------------------------------------------------------ bounds
MaxStrLen == 3
MaxRows == 2
MaxSortRows == 4
MaxMissing == 1

\* ---------------------------------------------------------------- characters
\* A character is a one-character string; the three that a string literal cannot
\* hold directly, and U+00B2 and U+2014, are spelled by name.
\* U+00B2 SUPERSCRIPT TWO: str.isdigit() is True, float() rejects it.
Sup2 == "sup2"

\* U+2014 EM DASH, of the report's title
EmDash == "emdash"

Printable ==
  << " ", "!", "quote", "#", "$", "%", "&", "'", "(", ")", "*", "+", ",", "-", ".", "/",
     "0", "1", "2", "3", "4", "5", "6", "7", "8", "9", ":", ";", "<", "=", ">", "?",
     "@", "A", "B", "C", "D", "E", "F", "G", "H", "I", "J", "K", "L", "M", "N", "O",
     "P", "Q", "R", "S", "T", "U", "V", "W", "X", "Y", "Z", "[", "backslash", "]", "^", "_",
     "backtick", "a", "b", "c", "d", "e", "f", "g", "h", "i", "j", "k", "l", "m", "n", "o",
     "p", "q", "r", "s", "t", "u", "v", "w", "x", "y", "z", "{", "|", "}", "~" >>

CharSet == {Printable[i] : i \in 1..Len(Printable)} \cup {Sup2, EmDash}

\* The code point of a character: what sorted() compares strings by.
OrdTable ==
  [c \in CharSet |->
     IF c = Sup2 THEN 178
     ELSE IF c = EmDash THEN 8212
     ELSE 31 + (CHOOSE i \in 1..Len(Printable) : Printable[i] = c)]

Ord(c) == OrdTable[c]

DecimalChars == {"0", "1", "2", "3", "4", "5", "6", "7", "8", "9"}

\* ch.isdigit()
IsDigitChar(c) == c \in DecimalChars \cup {Sup2}

DigitVal(c) == Ord(c) - 48

DigitChar(d) == Printable[17 + d]

IsSpaceChar(c) == c = " "

\* s.isdigit(): non-empty and every character a digit
StrIsDigit(s) == Len(s) > 0 /\ \A i \in 1..Len(s) : IsDigitChar(s[i])

RECURSIVE LStrip(_)
LStrip(s) == IF s # << >> /\ IsSpaceChar(Head(s)) THEN LStrip(Tail(s)) ELSE s

RECURSIVE RStrip(_)
RStrip(s) ==
  IF s # << >> /\ IsSpaceChar(s[Len(s)]) THEN RStrip(SubSeq(s, 1, Len(s) - 1)) ELSE s

\* str.strip()
Strip(s) == RStrip(LStrip(s))

\* s < t in Python's string order (code points, a proper prefix first)
RECURSIVE StrLess(_, _)
StrLess(s, t) ==
  IF t = << >> THEN FALSE
  ELSE IF s = << >> THEN TRUE
  ELSE IF Head(s) # Head(t) THEN Ord(Head(s)) < Ord(Head(t))
  ELSE StrLess(Tail(s), Tail(t))

\* ------------------------------------------------------------------- numbers
\* A natural number of any size, as a Python int holds one: its digits to the
\* base 2^15, the lowest first, the highest not 0; << >> is zero.
LimbBits == 15

Base == 32768

Limb(x, i) == IF i <= Len(x) THEN x[i] ELSE 0

\* the index of the highest digit that is not 0
Top(x) == CHOOSE i \in 0..Len(x) : (i = 0 \/ x[i] # 0) /\ \A j \in (i + 1)..Len(x) : x[j] = 0

Trim(x) == SubSeq(x, 1, Top(x))

\* a natural number below 2^31
BigOf(n) == Trim(<< n % Base, (n \div Base) % Base, n \div (Base * Base) >>)

CmpAt(a, b, i) == IF a[i] < b[i] THEN -1 ELSE 1

\* -1, 0 or 1 as a < b, a = b or a > b
BigCmp(a, b) ==
  IF Len(a) # Len(b) THEN (IF Len(a) < Len(b) THEN -1 ELSE 1)
  ELSE IF a = b THEN 0
  ELSE CmpAt(a, b, CHOOSE i \in 1..Len(a) :
                     a[i] # b[i] /\ \A j \in (i + 1)..Len(a) : a[j] = b[j])

Longer(a, b) == IF a > b THEN a ELSE b

\* Digit by digit with a carry: the digits lo..hi are worked in two halves, the
\* lower half first, and its carry r goes into the upper half.
CarryJoin(low, high) == [q |-> low.q \o high.q, r |-> high.r]

WithCarry(d) == Trim(IF d.r = 0 THEN d.q ELSE Append(d.q, d.r))

RECURSIVE AddRange(_, _, _, _, _)
AddHigh(a, b, mid, hi, low) ==
  IF low.r <= 1 THEN CarryJoin(low, AddRange(a, b, mid + 1, hi, low.r)) ELSE low

AddRange(a, b, lo, hi, cin) ==
  IF lo = hi THEN [q |-> << (Limb(a, lo) + Limb(b, lo) + cin) % Base >>,
                   r |-> (Limb(a, lo) + Limb(b, lo) + cin) \div Base]
  ELSE AddHigh(a, b, (lo + hi) \div 2, hi, AddRange(a, b, lo, (lo + hi) \div 2, cin))

BigAdd(a, b) ==
  IF a = << >> THEN b
  ELSE IF b = << >> THEN a
  ELSE WithCarry(AddRange(a, b, 1, Longer(Len(a), Len(b)), 0))

RECURSIVE SubRange(_, _, _, _, _)
SubHigh(a, b, mid, hi, low) ==
  IF low.r <= 1 THEN CarryJoin(low, SubRange(a, b, mid + 1, hi, low.r)) ELSE low

SubRange(a, b, lo, hi, bin) ==
  IF lo = hi THEN [q |-> << (a[lo] - Limb(b, lo) - bin) % Base >>,
                   r |-> IF a[lo] - Limb(b, lo) - bin < 0 THEN 1 ELSE 0]
  ELSE SubHigh(a, b, (lo + hi) \div 2, hi, SubRange(a, b, lo, (lo + hi) \div 2, bin))

\* a - b where a >= b
BigSub(a, b) == IF b = << >> THEN a ELSE Trim(SubRange(a, b, 1, Len(a), 0).q)

RECURSIVE TimesRange(_, _, _, _, _)
TimesHigh(a, c, mid, hi, low) ==
  IF low.r < Base THEN CarryJoin(low, TimesRange(a, c, mid + 1, hi, low.r)) ELSE low

TimesRange(a, c, lo, hi, cin) ==
  IF lo = hi THEN [q |-> << (a[lo] * c + cin) % Base >>, r |-> (a[lo] * c + cin) \div Base]
  ELSE TimesHigh(a, c, (lo + hi) \div 2, hi, TimesRange(a, c, lo, (lo + hi) \div 2, cin))

\* a * c for 0 <= c < Base
BigMulSmall(a, c) ==
  IF a = << >> \/ c = 0 THEN << >> ELSE WithCarry(TimesRange(a, c, 1, Len(a), 0))

DivJoin(top, low) == [q |-> low.q \o top.q, r |-> low.r]

\* digits lo..hi of a, with the remainder rin carried in from above, by c
RECURSIVE DivRange(_, _, _, _, _)
DivLow(a, c, lo, mid, top) ==
  IF top.r < c THEN DivJoin(top, DivRange(a, c, lo, mid, top.r)) ELSE top

DivRange(a, c, lo, hi, rin) ==
  IF lo = hi THEN [q |-> << (rin * Base + a[lo]) \div c >>, r |-> (rin * Base + a[lo]) % c]
  ELSE DivLow(a, c, lo, (lo + hi) \div 2, DivRange(a, c, (lo + hi) \div 2 + 1, hi, rin))

DivTrim(d) == [q |-> Trim(d.q), r |-> d.r]

\* quotient and remainder of a by c, 0 < c <= Base
BigDivSmall(a, c) ==
  IF a = << >> THEN [q |-> << >>, r |-> 0] ELSE DivTrim(DivRange(a, c, 1, Len(a), 0))

Pow2(k) == 2 ^ k

Pow10(k) == 10 ^ k

Zeros(n) == [i \in 1..n |-> 0]

\* a * 2^k
BigShl(a, k) ==
  IF a = << >> THEN << >> ELSE Zeros(k \div LimbBits) \o BigMulSmall(a, Pow2(k % LimbBits))

ShrLimbs(a, w, b) ==
  Trim([i \in 1..(Len(a) - w) |->
          a[i + w] \div Pow2(b) + (Limb(a, i + w + 1) % Pow2(b)) * Pow2(LimbBits - b)])

ShrLost(a, w, b) == (\E i \in 1..w : a[i] # 0) \/ a[w + 1] % Pow2(b) # 0

\* a \div 2^k, and whether a bit was lost
BigShr(a, k) ==
  IF k \div LimbBits >= Len(a) THEN [q |-> << >>, lost |-> a # << >>]
  ELSE [q |-> ShrLimbs(a, k \div LimbBits, k % LimbBits),
        lost |-> ShrLost(a, k \div LimbBits, k % LimbBits)]

SmallBits(n) == CHOOSE b \in 0..LimbBits : Pow2(b) > n /\ (b = 0 \/ Pow2(b - 1) <= n)

\* int.bit_length()
BitLen(a) == IF a = << >> THEN 0 ELSE LimbBits * (Len(a) - 1) + SmallBits(a[Len(a)])

IsOdd(a) == a # << >> /\ a[1] % 2 = 1

SmallTz(n) == CHOOSE b \in 0..LimbBits : n % Pow2(b) = 0 /\ n % Pow2(b + 1) # 0

Bottom(a) == CHOOSE i \in 1..Len(a) : a[i] # 0 /\ \A j \in 1..(i - 1) : a[j] = 0

\* the number of zero bits below the lowest set bit of a # 0
TrailingZeros(a) == LimbBits * (Bottom(a) - 1) + SmallTz(a[Bottom(a)])

\* a times digits lo..hi of b
RECURSIVE MulRange(_, _, _, _)
MulRange(a, b, lo, hi) ==
  IF lo = hi THEN BigMulSmall(a, b[lo])
  ELSE BigAdd(MulRange(a, b, lo, (lo + hi) \div 2),
              Zeros((lo + hi) \div 2 + 1 - lo) \o MulRange(a, b, (lo + hi) \div 2 + 1, hi))

BigMul(a, b) == IF a = << >> \/ b = << >> THEN << >> ELSE MulRange(a, b, 1, Len(b))

Square(a) == BigMul(a, a)

RECURSIVE BigPow10(_)
BigPow10(k) ==
  IF k < 5 THEN BigOf(Pow10(k))
  ELSE BigMulSmall(Square(BigPow10(k \div 2)), IF k % 2 = 1 THEN 10 ELSE 1)

\* a * 10^k
BigMulPow10(a, k) == BigMul(a, BigPow10(k))

DivPut(d, lost) == [q |-> d.q, lost |-> lost \/ d.r # 0]

Div10000(d) == DivPut(BigDivSmall(d.q, 10000), d.lost)

RECURSIVE DivPow10(_, _)
DivPow10(d, k) ==
  IF k = 0 \/ d.q = << >> THEN d
  ELSE IF k < 4 THEN DivPut(BigDivSmall(d.q, Pow10(k)), d.lost)
  ELSE IF k < 16 THEN DivPow10(Div10000(d), k - 4)
  ELSE DivPow10(Div10000(Div10000(Div10000(Div10000(d)))), k - 16)

\* a \div 10^k, and whether a remainder was lost
BigDivPow10(a, k) == DivPow10([q |-> a, lost |-> FALSE], k)

RECURSIVE NatToChars(_)
NatToChars(n) ==
  IF n < 10 THEN << DigitChar(n) >> ELSE NatToChars(n \div 10) \o << DigitChar(n % 10) >>

Pad2(n) == << DigitChar(n \div 10), DigitChar(n % 10) >>

Pad4(n) == << DigitChar(n \div 1000), DigitChar((n \div 100) % 10),
              DigitChar((n \div 10) % 10), DigitChar(n % 10) >>

\* the value of at most nine decimal digits
RECURSIVE DigitsValue(_)
DigitsValue(s) ==
  IF s = << >> THEN 0 ELSE 10 * DigitsValue(SubSeq(s, 1, Len(s) - 1)) + DigitVal(s[Len(s)])

AllDecimal(s) == \A i \in 1..Len(s) : s[i] \in DecimalChars

\* the number a text of decimal digits spells
RECURSIVE BigOfDigits(_)
BigOfDigits(s) ==
  IF Len(s) <= 9 THEN BigOf(DigitsValue(s))
  ELSE BigAdd(BigMulPow10(BigOfDigits(SubSeq(s, 1, Len(s) \div 2)), Len(s) - Len(s) \div 2),
              BigOfDigits(SubSeq(s, Len(s) \div 2 + 1, Len(s))))

\* the decimal digits of a
RECURSIVE BigToChars(_)
BigToChars(a) ==
  IF Len(a) <= 1 /\ Limb(a, 1) < 10000 THEN NatToChars(Limb(a, 1))
  ELSE BigToChars(BigDivSmall(a, 10000).q) \o Pad4(BigDivSmall(a, 10000).r)

\* the value of a when it is below 2^30
SmallOf(a) == Limb(a, 1) + Base * Limb(a, 2)

FitsSmall(a) == Len(a) <= 2

\* -------------------------------------------------------------------- values
\* A cell value or a Python result: a tag t and, as the tag needs them, a
\* number n, a text s, a magnitude m and a sign neg.
\*   none            None
\*   nan             float('nan'); n is the identity of the float object
\*   nat             pandas.NaT
\*   str             s is the text
\*   int             the int neg ? -m : m, of any size
\*   bool            True (m = 1) or False (m = 0), an int to isinstance
\*   float           the finite float (neg ? -m : m) * 2^n, m odd or zero (then n = 0)
\*   inf             the float inf, or -inf when neg
\*   date            a datetime / Timestamp; n = year*10000 + month*100 + day
\*   raise           an exception propagates
Val(t, n, s) == [t |-> t, n |-> n, s |-> s, m |-> << >>, neg |-> FALSE]
Num(t, neg, m, e) == [t |-> t, n |-> e, s |-> << >>, m |-> m, neg |-> neg]
NoneV == Val("none", 0, << >>)
NaN(id) == Val("nan", id, << >>)
NaT == Val("nat", 0, << >>)
StrV(s) == Val("str", 0, s)
IntV(n) == Num("int", n < 0, BigOf(IF n < 0 THEN 0 - n ELSE n), 0)
BigIntV(neg, m) == Num("int", neg /\ m # << >>, m, 0)
BoolV(b) == Num("bool", FALSE, IF b THEN << 1 >> ELSE << >>, 0)
Inf(neg) == Num("inf", neg, << >>, 0)
DateV(y, mo, d) == Val("date", y * 10000 + mo * 100 + d, << >>)
Raise == Val("raise", 0, << >>)

\* the float (neg ? -m : m) * 2^e for any m
Float(neg, m, e) ==
  IF m = << >> THEN Num("float", neg, << >>, 0)
  ELSE Num("float", neg, BigShr(m, TrailingZeros(m)).q, e + TrailingZeros(m))

Zero == Float(FALSE, << >>, 0)

\* isinstance(v, float), isinstance(v, int)
IsFloat(v) == v.t \in {"float", "inf", "nan"}
IsInt(v) == v.t \in {"int", "bool"}

\* ---- binary floating point: 53 bits, exponents -1074 .. 971, round to nearest,
\* ties to even; what C's double and so Python's float does
MantBits == 53

MinExp == -1074

MaxBits == 1024

PickRound(neg, half, up, e) ==
  IF BitLen(IF up THEN BigAdd(half, << 1 >>) ELSE half) + e > MaxBits THEN Inf(neg)
  ELSE Float(neg, IF up THEN BigAdd(half, << 1 >>) ELSE half, e)

\* sh is the value cut one bit below the last bit kept
RoundCut(neg, sh, sticky, e) ==
  PickRound(neg, BigShr(sh.q, 1).q,
            IsOdd(sh.q) /\ (sh.lost \/ sticky \/ IsOdd(BigShr(sh.q, 1).q)), e)

RoundDrop(neg, m, e, sticky, drop) ==
  IF drop <= 0 THEN PickRound(neg, m, FALSE, e)
  ELSE RoundCut(neg, BigShr(m, drop - 1), sticky, e + drop)

\* the float nearest to (m + x) * 2^e, where 0 <= x < 1 and x > 0 when sticky
RoundBits(neg, m, e, sticky) ==
  RoundDrop(neg, m, e, sticky, Longer(BitLen(m) - MantBits, MinExp - e))

\* the float nearest to d / 10^k: d is scaled up by 2^s first so that the
\* quotient has bits to spare
ScaledDiv(neg, dv, s) == RoundBits(neg, dv.q, 0 - s, dv.lost)

DecimalShift(d, k) == Longer(0, 64 + 4 * k - BitLen(d))

FloatOfDecimal(neg, d, k) ==
  IF d = << >> THEN Float(neg, << >>, 0)
  ELSE ScaledDiv(neg, BigDivPow10(BigShl(d, DecimalShift(d, k)), k), DecimalShift(d, k))

DotPos(s) == {i \in 1..Len(s) : s[i] = "."}

IntPart(u) == IF DotPos(u) = {} THEN u ELSE SubSeq(u, 1, (CHOOSE i \in DotPos(u) : TRUE) - 1)

FracPart(u) ==
  IF DotPos(u) = {} THEN << >> ELSE SubSeq(u, (CHOOSE i \in DotPos(u) : TRUE) + 1, Len(u))

\* [sign] digits [. digits] or [sign] . digits, with at least one ASCII digit
IsDecimalLiteral(u) ==
  /\ Cardinality(DotPos(u)) <= 1
  /\ AllDecimal(IntPart(u)) /\ AllDecimal(FracPart(u))
  /\ Len(IntPart(u)) + Len(FracPart(u)) > 0

Unsigned(s) == IF s # << >> /\ Head(s) \in {"-", "+"} THEN Tail(s) ELSE s

\* float(s) for text over the digits, '.', '-', '+' and blanks: the float, or
\* Raise where float() raises ValueError
PyFloat(s) ==
  IF IsDecimalLiteral(Unsigned(Strip(s)))
  THEN FloatOfDecimal(Strip(s)[1] = "-",
                      BigOfDigits(IntPart(Unsigned(Strip(s))) \o FracPart(Unsigned(Strip(s)))),
                      Len(FracPart(Unsigned(Strip(s)))))
  ELSE Raise

\* float(v) of an int: OverflowError from 2^1024 - 2^970 on
FloatOfInt(v) ==
  IF RoundBits(v.neg, v.m, 0, FALSE).t = "inf" THEN Raise ELSE RoundBits(v.neg, v.m, 0, FALSE)

\* the float literal n / 10^k
FloatLit(n, k) == FloatOfDecimal(n < 0, BigOf(IF n < 0 THEN 0 - n ELSE n), k)

Lower2(a, b) == IF a < b THEN a ELSE b

AddAligned(x, y, a, b, e) ==
  IF x.neg = y.neg THEN RoundBits(x.neg, BigAdd(a, b), e, FALSE)
  ELSE IF BigCmp(a, b) = 0 THEN Zero
  ELSE IF BigCmp(a, b) > 0 THEN RoundBits(x.neg, BigSub(a, b), e, FALSE)
  ELSE RoundBits(y.neg, BigSub(b, a), e, FALSE)

\* x + y on floats
FloatAdd(x, y) ==
  IF x.t = "nan" \/ y.t = "nan" THEN NaN(0)
  ELSE IF x.t = "inf" /\ y.t = "inf" THEN (IF x.neg = y.neg THEN x ELSE NaN(0))
  ELSE IF x.t = "inf" THEN x
  ELSE IF y.t = "inf" THEN y
  ELSE IF x.m = << >> /\ y.m # << >> THEN y
  ELSE IF y.m = << >> /\ x.m # << >> THEN x
  ELSE AddAligned(x, y, BigShl(x.m, x.n - Lower2(x.n, y.n)), BigShl(y.m, y.n - Lower2(x.n, y.n)),
                  Lower2(x.n, y.n))

\* x * y on finite floats
FloatMul(x, y) == RoundBits(x.neg # y.neg, BigMul(x.m, y.m), x.n + y.n, FALSE)

\* the integer nearest to m * 2^e for e < 0, ties to even
NearestCut(sh) ==
  IF IsOdd(sh.q) /\ (sh.lost \/ IsOdd(BigShr(sh.q, 1).q))
  THEN BigAdd(BigShr(sh.q, 1).q, << 1 >>) ELSE BigShr(sh.q, 1).q

Nearest(m, e) == NearestCut(BigShr(m, 0 - e - 1))

\* round(x, nd) for nd >= 0: the float nearest to the decimal of nd places that
\* is nearest to x, ties to even
PyRound(x, nd) ==
  IF x.t # "float" \/ x.n >= 0 THEN x
  ELSE FloatOfDecimal(x.neg, Nearest(BigMulPow10(x.m, nd), x.n), nd)

\* the whole part of a finite float, toward zero
Trunc(x) == IF x.n >= 0 THEN BigShl(x.m, x.n) ELSE BigShr(x.m, 0 - x.n).q

\* x < y on floats that are not NaN
MagLess(x, y) ==
  IF x.t = "inf" THEN FALSE
  ELSE IF y.t = "inf" THEN TRUE
  ELSE IF x.m = << >> THEN y.m # << >>
  ELSE IF y.m = << >> THEN FALSE
  ELSE IF BitLen(x.m) + x.n # BitLen(y.m) + y.n THEN BitLen(x.m) + x.n < BitLen(y.m) + y.n
  ELSE BigCmp(BigShl(x.m, x.n - Lower2(x.n, y.n)), BigShl(y.m, y.n - Lower2(x.n, y.n))) < 0

IsZero(x) == x.t \in {"float", "int", "bool"} /\ x.m = << >>

FloatLess(x, y) ==
  IF IsZero(x) /\ IsZero(y) THEN FALSE
  ELSE IF x.neg /\ ~y.neg THEN TRUE
  ELSE IF ~x.neg /\ y.neg THEN FALSE
  ELSE IF x.neg THEN MagLess(y, x) ELSE MagLess(x, y)

\* x == y on ints and floats that are not NaN
NumEq(x, y) == ~FloatLess(x, y) /\ ~FloatLess(y, x)

\* ---- repr(float): the shortest digits that read back as the same float
\* (the free-format algorithm of David Gay's dtoa, mode 0)
ReprShift(x) == Lower2(MantBits - BitLen(x.m), x.n - MinExp)

\* the gap to the float below is half the gap to the float above
Closer(x) == IF x.m = << 1 >> /\ x.n > MinExp + MantBits - 1 THEN 1 ELSE 0

Pos(n) == IF n > 0 THEN n ELSE 0

\* x = r / s, the half gaps above and below are mp / s and mm / s
ReprStart(x, e) ==
  [r |-> BigShl(x.m, ReprShift(x) + Pos(e) + 1 + Closer(x)),
   s |-> BigShl(<< 1 >>, Pos(0 - e) + 1 + Closer(x)),
   mp |-> BigShl(<< 1 >>, Pos(e) + Closer(x)),
   mm |-> BigShl(<< 1 >>, Pos(e)),
   even |-> ReprShift(x) > 0]

ReprScale(st, k) ==
  IF k >= 0 THEN [st EXCEPT !.s = BigMulPow10(st.s, k)]
  ELSE [st EXCEPT !.r = BigMulPow10(st.r, 0 - k), !.mp = BigMulPow10(st.mp, 0 - k),
                  !.mm = BigMulPow10(st.mm, 0 - k)]

TooHigh(st) ==
  IF st.even THEN BigCmp(BigAdd(st.r, st.mp), st.s) >= 0 ELSE BigCmp(BigAdd(st.r, st.mp), st.s) > 0

RECURSIVE ReprFix(_, _)
ReprFix(st, k) ==
  IF TooHigh(st) THEN ReprFix([st EXCEPT !.s = BigMulSmall(st.s, 10)], k + 1)
  ELSE [st |-> st, k |-> k]

RECURSIVE DigitOf(_, _, _)
DigitOf(r, s, d) == IF BigCmp(r, s) < 0 THEN [d |-> d, r |-> r] ELSE DigitOf(BigSub(r, s), s, d + 1)

Low(st, r) == IF st.even THEN BigCmp(r, st.mm) <= 0 ELSE BigCmp(r, st.mm) < 0

High(st, r) ==
  IF st.even THEN BigCmp(BigAdd(r, st.mp), st.s) >= 0 ELSE BigCmp(BigAdd(r, st.mp), st.s) > 0

LastDigit(st, q) ==
  IF ~High(st, q.r) THEN q.d
  ELSE IF ~Low(st, q.r) THEN q.d + 1
  ELSE IF BigCmp(BigMulSmall(q.r, 2), st.s) < 0 THEN q.d
  ELSE IF BigCmp(BigMulSmall(q.r, 2), st.s) > 0 THEN q.d + 1
  ELSE IF q.d % 2 = 1 THEN q.d + 1 ELSE q.d

RECURSIVE ReprDigits(_, _)
ReprNext(st, q, acc) ==
  IF Low(st, q.r) \/ High(st, q.r) THEN Append(acc, DigitChar(LastDigit(st, q)))
  ELSE ReprDigits([st EXCEPT !.r = q.r], Append(acc, DigitChar(q.d)))

ReprTimes10(st) ==
  [st EXCEPT !.r = BigMulSmall(st.r, 10), !.mp = BigMulSmall(st.mp, 10),
             !.mm = BigMulSmall(st.mm, 10)]

ReprDigits(st, acc) == ReprNext(ReprTimes10(st), DigitOf(BigMulSmall(st.r, 10), st.s, 0), acc)

\* floor(log10(2) * b), a lower estimate of the decimal exponent
Log10Est(b) == (b * 30103) \div 100000

ReprFixed(x) ==
  ReprFix(ReprScale(ReprStart(x, x.n - ReprShift(x)), Log10Est(x.n + BitLen(x.m) - 1)),
          Log10Est(x.n + BitLen(x.m) - 1))

Repeat(c, n) == [i \in 1..n |-> c]

ExpChars(e) ==
  << "e", IF e < 0 THEN "-" ELSE "+" >>
    \o (IF e > -10 /\ e < 10 THEN << "0" >> ELSE << >>) \o NatToChars(IF e < 0 THEN 0 - e ELSE e)

\* digits ds with the decimal point after the first decpt of them
ReprLayout(ds, decpt) ==
  IF decpt <= -4 \/ decpt > 16
  THEN << ds[1] >> \o (IF Len(ds) > 1 THEN << "." >> \o Tail(ds) ELSE << >>) \o ExpChars(decpt - 1)
  ELSE IF decpt <= 0 THEN << "0", "." >> \o Repeat("0", 0 - decpt) \o ds
  ELSE IF decpt >= Len(ds) THEN ds \o Repeat("0", decpt - Len(ds)) \o << ".", "0" >>
  ELSE SubSeq(ds, 1, decpt) \o << "." >> \o SubSeq(ds, decpt + 1, Len(ds))

ReprMag(f) == ReprLayout(ReprDigits(f.st, << >>), f.k)

\* str(x) and repr(x) of a float
FloatToChars(x) ==
  IF x.t = "nan" THEN << "n", "a", "n" >>
  ELSE (IF x.neg THEN << "-" >> ELSE << >>)
       \o (IF x.t = "inf" THEN << "i", "n", "f" >>
           ELSE IF x.m = << >> THEN << "0", ".", "0" >>
           ELSE ReprMag(ReprFixed(x)))

\* str(n) of an int
IntToChars(v) == (IF v.neg THEN << "-" >> ELSE << >>) \o BigToChars(v.m)

\* ------------------------------------------------------------ str() and ==
\* str(v)
PyStr(v) ==
  CASE v.t = "str" -> v.s
    [] v.t = "int" -> IntToChars(v)
    [] v.t = "bool" -> IF v.m = << >> THEN << "F", "a", "l", "s", "e" >> ELSE << "T", "r", "u", "e" >>
    [] v.t \in {"float", "inf", "nan"} -> FloatToChars(v)
    [] v.t = "none" -> << "N", "o", "n", "e" >>
    [] v.t = "nat" -> << "N", "a", "T" >>
    [] OTHER -> Pad4(v.n \div 10000) \o << "-" >> \o Pad2((v.n \div 100) % 100)
                \o << "-" >> \o Pad2(v.n % 100) \o << " " >>
                \o << "0", "0", ":", "0", "0", ":", "0", "0" >>

IsNumber(v) == v.t \in {"int", "bool", "float", "inf"}

\* a == b in Python, as dict keys compare: the same object, or equal values
PyEq(a, b) ==
  CASE a.t = "nan" \/ b.t = "nan" -> a = b
    [] IsNumber(a) /\ IsNumber(b) -> NumEq(a, b)
    [] OTHER -> a = b

\* ----------------------------------------------------------------- numberish
\* "".join(ch for ch in v if (ch.isdigit() or ch in ".-"))
KeepNumeric(s) == SelectSeq(s, LAMBDA c : IsDigitChar(c) \/ c \in {".", "-"})

\* float(text) inside try / except Exception: return 0.0 (lines 69-72)
FloatOrZero(p) == IF p = Raise THEN Zero ELSE p

\* numberish(v): a float, or Raise.  float(v) at line 67 stands outside the
\* try block: an int from 2^1024 - 2^970 on raises OverflowError.
numberish(v) ==
  IF IsInt(v) THEN FloatOfInt(v)
  ELSE IF IsFloat(v) THEN v
  ELSE IF v.t = "str" THEN FloatOrZero(PyFloat(KeepNumeric(v.s)))
  ELSE Zero

\* --------------------------------------------------------------------- dates
\* The civil date of a day number counted from 1970-01-01.
CivilFromDays(z0) ==
  LET z == z0 + 719468
      era == z \div 146097
      doe == z - era * 146097
      yoe == (doe - doe \div 1460 + doe \div 36524 - doe \div 146096) \div 365
      y == yoe + era * 400
      doy == doe - (365 * yoe + yoe \div 4 - yoe \div 100)
      mp == (5 * doy + 2) \div 153
      d == doy - (153 * mp + 2) \div 5 + 1
      mo == IF mp < 10 THEN mp + 3 ELSE mp - 9
  IN [year |-> IF mo <= 2 THEN y + 1 ELSE y, month |-> mo, day |-> d]

IsLeap(y) == (y % 4 = 0 /\ y % 100 # 0) \/ y % 400 = 0

DaysInMonth(y, mo) ==
  IF mo = 2 THEN (IF IsLeap(y) THEN 29 ELSE 28)
  ELSE IF mo \in {4, 6, 9, 11} THEN 30 ELSE 31

\* d.strftime("%m/%d/%Y"): the C library's %Y does not pad a year below 1000
Strftime(c) == Pad2(c.month) \o << "/" >> \o Pad2(c.day) \o << "/" >> \o NatToChars(c.year)

LeapsBefore(y) == (y - 1) \div 4 - (y - 1) \div 100 + (y - 1) \div 400

DaysBeforeMonth == << 0, 31, 59, 90, 120, 151, 181, 212, 243, 273, 304, 334 >>

\* the day number of a civil date of the years 1 .. 9999, counted from 1970-01-01
DaysFromCivil(c) ==
  365 * (c.year - 1970) + LeapsBefore(c.year) - LeapsBefore(1970)
    + DaysBeforeMonth[c.month] + (IF c.month > 2 /\ IsLeap(c.year) THEN 1 ELSE 0)
    + c.day - 1

\* Days from 1970-01-01 to 1899-12-30: the origin of the day count.
ExcelOrigin == DaysFromCivil([year |-> 1899, month |-> 12, day |-> 30])

\* ---- pandas.Timestamp: int64 nanoseconds from 1970-01-01T00:00 (pandas 2.x;
\* the repository pins no pandas version).  A moment is a day number, a second
\* of that day and a nanosecond of that second.
SecPerDay == 86400

\* Timestamp.min = 1677-09-21 00:12:43.145224193
MinStamp == [day |-> 0 - 106752, sec |-> 763, ns |-> 145224193]

\* Timestamp.max = 2262-04-11 23:47:16.854775807
MaxStamp == [day |-> 106751, sec |-> 85636, ns |-> 854775807]

StampLeq(a, b) ==
  a.day < b.day \/ (a.day = b.day /\ (a.sec < b.sec \/ (a.sec = b.sec /\ a.ns <= b.ns)))

InRange(m) == StampLeq(MinStamp, m) /\ StampLeq(m, MaxStamp)

\* a wall time read from text: the fields of a datetime and its offset east of
\* UTC in seconds (0 when the text names no zone); ok = FALSE is a text that
\* is no date
NoStamp ==
  [ok |-> FALSE, year |-> 1, month |-> 1, day |-> 1, sec |-> 0, ns |-> 0, off |-> 0]

Stamp(y, mo, d, sec, ns, off) ==
  [ok |-> TRUE, year |-> y, month |-> mo, day |-> d, sec |-> sec, ns |-> ns, off |-> off]

Moment(day, sec, ns) == [day |-> day + sec \div SecPerDay, sec |-> sec % SecPerDay, ns |-> ns]

\* the wall time and the UTC time both fit the int64 nanoseconds; otherwise
\* OutOfBoundsDatetime, which errors="coerce" turns into NaT
Within(st) ==
  /\ st.ok /\ st.year >= 1 /\ st.year <= 9999
  /\ InRange(Moment(DaysFromCivil(st), st.sec, st.ns))
  /\ InRange(Moment(DaysFromCivil(st), st.sec - st.off, st.ns))

\* a text pandas does not read as a date: NaT
NotADate == [ok |-> FALSE, c |-> CivilFromDays(0)]

\* the calendar date of a Timestamp
DateOf(st) ==
  IF Within(st) THEN [ok |-> TRUE, c |-> [year |-> st.year, month |-> st.month, day |-> st.day]]
  ELSE NotADate

\* the clock the process reads: today's local date (the machine keeps UTC) and
\* the year in which dateutil's parserinfo was created, at import
Clock(y, mo, d, started) == [year |-> y, month |-> mo, day |-> d, started |-> started]

\* ---- dateutil.parser._timelex: the text cut into tokens
IsAlphaChar(c) ==
  c \in CharSet /\ c \notin {Sup2, EmDash}
    /\ ((Ord(c) >= 65 /\ Ord(c) <= 90) \/ (Ord(c) >= 97 /\ Ord(c) <= 122))

IsUpperChar(c) == IsAlphaChar(c) /\ Ord(c) <= 90

\* c.lower() and c.upper()
LowerChar(c) == IF IsUpperChar(c) THEN Printable[Ord(c) + 1] ELSE c

UpperChar(c) == IF IsAlphaChar(c) /\ ~IsUpperChar(c) THEN Printable[Ord(c) - 63] ELSE c

LowerText(s) == [k \in 1..Len(s) |-> LowerChar(s[k])]

UpperText(s) == [k \in 1..Len(s) |-> UpperChar(s[k])]

\* the characters a token goes on with in each state of the lexer: 'a' letters,
\* '0' digits, 'a.' letters and dots, '0.' digits and dots
Plain(st, c) ==
  CASE st = "a" -> IsAlphaChar(c)
    [] st = "0" -> IsDigitChar(c)
    [] st = "a." -> IsAlphaChar(c) \/ c = "."
    [] OTHER -> IsDigitChar(c) \/ c = "."

\* where the run of such characters from p ends
RunEnd(s, p, st) ==
  CHOOSE j \in p..(Len(s) + 1) :
    (\A k \in p..(j - 1) : Plain(st, s[k])) /\ (j = Len(s) + 1 \/ ~Plain(st, s[j]))

\* get_token's loop for the token that starts at i, from position p in state
\* st: where the token ends, the state it ends in, and whether a character was
\* examined in a letter state (seenletters)
RECURSIVE LexRun(_, _, _, _, _)
LexTurn(s, i, j, st, seen) ==
  IF j > Len(s) THEN [e |-> j, st |-> st, seen |-> seen]
  ELSE IF st = "a" /\ s[j] = "." THEN LexRun(s, i, j + 1, "a.", seen)
  ELSE IF st = "0" /\ (s[j] = "." \/ (s[j] = "," /\ j - i >= 2))
    THEN LexRun(s, i, j + 1, "0.", seen)
  ELSE IF st = "a." /\ IsDigitChar(s[j]) /\ s[j - 1] = "." THEN LexRun(s, i, j + 1, "0.", seen)
  ELSE IF st = "0." /\ IsAlphaChar(s[j]) /\ s[j - 1] = "." THEN LexRun(s, i, j + 1, "a.", seen)
  ELSE [e |-> j, st |-> st, seen |-> seen]

LexRun(s, i, p, st, seen) ==
  LexTurn(s, i, RunEnd(s, p, st), st, seen \/ (st \in {"a", "a."} /\ p <= Len(s)))

LexToken(s, i) ==
  IF IsAlphaChar(s[i]) THEN LexRun(s, i, i + 1, "a", FALSE)
  ELSE IF IsDigitChar(s[i]) THEN LexRun(s, i, i + 1, "0", FALSE)
  ELSE [e |-> i + 1, st |-> "", seen |-> FALSE]

CountOf(t, c) == Cardinality({k \in 1..Len(t) : t[k] = c})

\* re.split("([.,])", token) without the empty pieces
PieceEnd(t, i) ==
  CHOOSE j \in i..(Len(t) + 1) :
    (\A k \in i..(j - 1) : t[k] \notin {".", ","}) /\ (j = Len(t) + 1 \/ t[j] \in {".", ","})

RECURSIVE SplitDecimal(_, _)
SplitDecimal(t, i) ==
  IF i > Len(t) THEN << >>
  ELSE IF t[i] \in {".", ","} THEN << << t[i] >> >> \o SplitDecimal(t, i + 1)
  ELSE << SubSeq(t, i, PieceEnd(t, i) - 1) >> \o SplitDecimal(t, PieceEnd(t, i))

CommaToDot(t) == [k \in 1..Len(t) |-> IF t[k] = "," THEN "." ELSE t[k]]

\* the tokens one get_token call yields
Pieces(t, lx) ==
  IF lx.st \in {"a.", "0."} /\ (lx.seen \/ CountOf(t, ".") > 1 \/ t[Len(t)] \in {".", ","})
  THEN SplitDecimal(t, 1)
  ELSE IF lx.st = "0." /\ CountOf(t, ".") = 0 THEN << CommaToDot(t) >>
  ELSE << t >>

RECURSIVE TokensFrom(_, _)
TokensAfter(s, i, lx) == Pieces(SubSeq(s, i, lx.e - 1), lx) \o TokensFrom(s, lx.e)

TokensFrom(s, i) == IF i > Len(s) THEN << >> ELSE TokensAfter(s, i, LexToken(s, i))

\* _timelex.split(text)
Tokens(s) == TokensFrom(s, 1)

\* ---- dateutil.parser.parserinfo: the words it knows, looked up in lower case
JumpWords ==
  {<< " " >>, << "." >>, << "," >>, << ";" >>, << "-" >>, << "/" >>, << "'" >>,
   << "a", "t" >>, << "o", "n" >>, << "a", "n", "d" >>, << "a", "d" >>, << "m" >>, << "t" >>, << "o", "f" >>, << "s", "t" >>, << "n", "d" >>, << "r", "d" >>, << "t", "h" >>}

WeekdayWords ==
  {<< "m", "o", "n" >>, << "m", "o", "n", "d", "a", "y" >>, << "t", "u", "e" >>, << "t", "u", "e", "s", "d", "a", "y" >>, << "w", "e", "d" >>, << "w", "e", "d", "n", "e", "s", "d", "a", "y" >>, << "t", "h", "u" >>, << "t", "h", "u", "r", "s", "d", "a", "y" >>,
   << "f", "r", "i" >>, << "f", "r", "i", "d", "a", "y" >>, << "s", "a", "t" >>, << "s", "a", "t", "u", "r", "d", "a", "y" >>, << "s", "u", "n" >>, << "s", "u", "n", "d", "a", "y" >>}

MonthWords ==
  << {<< "j", "a", "n" >>, << "j", "a", "n", "u", "a", "r", "y" >>}, {<< "f", "e", "b" >>, << "f", "e", "b", "r", "u", "a", "r", "y" >>}, {<< "m", "a", "r" >>, << "m", "a", "r", "c", "h" >>}, {<< "a", "p", "r" >>, << "a", "p", "r", "i", "l" >>},
     {<< "m", "a", "y" >>}, {<< "j", "u", "n" >>, << "j", "u", "n", "e" >>}, {<< "j", "u", "l" >>, << "j", "u", "l", "y" >>}, {<< "a", "u", "g" >>, << "a", "u", "g", "u", "s", "t" >>},
     {<< "s", "e", "p" >>, << "s", "e", "p", "t" >>, << "s", "e", "p", "t", "e", "m", "b", "e", "r" >>}, {<< "o", "c", "t" >>, << "o", "c", "t", "o", "b", "e", "r" >>}, {<< "n", "o", "v" >>, << "n", "o", "v", "e", "m", "b", "e", "r" >>},
     {<< "d", "e", "c" >>, << "d", "e", "c", "e", "m", "b", "e", "r" >>} >>

HmsWords ==
  << {<< "h" >>, << "h", "o", "u", "r" >>, << "h", "o", "u", "r", "s" >>}, {<< "m" >>, << "m", "i", "n", "u", "t", "e" >>, << "m", "i", "n", "u", "t", "e", "s" >>}, {<< "s" >>, << "s", "e", "c", "o", "n", "d" >>, << "s", "e", "c", "o", "n", "d", "s" >>} >>

AmPmWords == << {<< "a", "m" >>, << "a" >>}, {<< "p", "m" >>, << "p" >>} >>

UtcWords == {<< "u", "t", "c" >>, << "g", "m", "t" >>, << "z" >>}

PertainWords == {<< "o", "f" >>}

\* float(token) succeeds on these words too; Decimal(token) is then not finite
FloatWords == {<< "i", "n", "f" >>, << "n", "a", "n" >>, << "i", "n", "f", "i", "n", "i", "t", "y" >>}

Jump(t) == LowerText(t) \in JumpWords

IsWeekday(t) == LowerText(t) \in WeekdayWords

\* info.month(t): 1 .. 12, or 0 for None
MonthOf(t) ==
  IF \E k \in 1..12 : LowerText(t) \in MonthWords[k]
  THEN CHOOSE k \in 1..12 : LowerText(t) \in MonthWords[k] ELSE 0

\* info.hms(t): 0, 1, 2, or -1 for None
HmsOf(t) ==
  IF \E k \in 1..3 : LowerText(t) \in HmsWords[k]
  THEN (CHOOSE k \in 1..3 : LowerText(t) \in HmsWords[k]) - 1 ELSE 0 - 1

\* info.ampm(t): 0, 1, or -1 for None
AmPmOf(t) ==
  IF \E k \in 1..2 : LowerText(t) \in AmPmWords[k]
  THEN (CHOOSE k \in 1..2 : LowerText(t) \in AmPmWords[k]) - 1 ELSE 0 - 1

UtcZone(t) == LowerText(t) \in UtcWords

Pertain(t) == LowerText(t) \in PertainWords

\* info.convertyear(year, century_specified) with the year the parserinfo was
\* created in
ConvertYear(year, cent, started) ==
  IF year < 100 /\ ~cent
  THEN (IF year + (started \div 100) * 100 >= started + 50
          THEN year + (started \div 100) * 100 - 100
        ELSE IF year + (started \div 100) * 100 < started - 50
          THEN year + (started \div 100) * 100 + 100
        ELSE year + (started \div 100) * 100)
  ELSE year

\* ---- the numbers of tokens.  A number of more than nine significant digits
\* is held as Huge: the parser compares a number with 12, 24, 31, 100 and the
\* days of a month only, a date member above 9999 is no date, and a time field
\* above 59 is either set again or no time.
Huge == 1000000000

FirstSig(d) ==
  CHOOSE j \in 1..(Len(d) + 1) :
    (\A k \in 1..(j - 1) : d[k] = "0") /\ (j = Len(d) + 1 \/ d[j] # "0")

\* the digits without their leading zeros
Sig(d) == SubSeq(d, FirstSig(d), Len(d))

\* int(d) of a text of ASCII digits
TokInt(d) == IF Len(Sig(d)) > 9 THEN Huge ELSE DigitsValue(Sig(d))

\* int(d) does not raise ValueError
IntOk(d) == d # << >> /\ AllDecimal(d)

\* the token passes float(): it reads as a number
IsNumTok(t) == IsDecimalLiteral(t) \/ LowerText(t) \in FloatWords

\* int(Decimal(t))
Whole(t) == TokInt(IntPart(t))

\* Decimal(t) % 1 is not zero
HasFrac(t) == \E k \in 1..Len(FracPart(t)) : FracPart(t)[k] # "0"

\* Decimal(t) > 100
Above100(t) == Whole(t) > 100 \/ (Whole(t) = 100 /\ HasFrac(t))

\* Decimal(t) % 1 raises InvalidOperation when the whole part has more digits
\* than the context's precision
DecimalPrec == 28

RemOk(t) == Len(Sig(IntPart(t))) <= DecimalPrec

DecDigits(a) == IF a = << >> THEN 0 ELSE Len(BigToChars(a))

\* a decimal d / 10^k rounded to the precision, half to even
RoundPrec(x) ==
  IF DecDigits(x.d) > DecimalPrec
  THEN [d |-> NearestCut(BigDivPow10(BigMulSmall(x.d, 2), DecDigits(x.d) - DecimalPrec)),
        k |-> x.k - (DecDigits(x.d) - DecimalPrec)]
  ELSE x

Times60(x) == [d |-> BigMulSmall(x.d, 60), k |-> x.k]

Floor(x) == SmallOf(BigDivPow10(x.d, x.k).q)

\* int(60 * (Decimal(t) % 1)) for the fraction digits fp of t
Frac60(fp) == Floor(RoundPrec(Times60(RoundPrec([d |-> BigOfDigits(fp), k |-> Len(fp)]))))

\* _parsems(v): int(i) and int(f.ljust(6, "0")[:6]) of v split at its dot
MsOk(v) ==
  IF DotPos(v) = {} THEN IntOk(v)
  ELSE /\ Cardinality(DotPos(v)) = 1
       /\ IntOk(IntPart(v))
       /\ IntOk(SubSeq(FracPart(v) \o << "0", "0", "0", "0", "0", "0" >>, 1, 6))

MsSecond(v) == TokInt(IntPart(v))

MsMicro(v) ==
  IF DotPos(v) = {} THEN 0
  ELSE DigitsValue(SubSeq(FracPart(v) \o << "0", "0", "0", "0", "0", "0" >>, 1, 6))

\* ---- dateutil.parser.parser._parse: the state of one parse.  tk the tokens,
\* i the token read next, ymd the date members with cent (century_specified)
\* and the places yi, mi of a member labelled year or month (0: none), the time
\* fields (-1: None), wd a weekday was named, tzname (empty: None), tzset and
\* tzoff the offset (tzset FALSE: None), ok FALSE once the parse has failed.
NoName == << >>

Start(tk, started) ==
  [tk |-> tk, i |-> 1, started |-> started, ymd |-> << >>, cent |-> FALSE, yi |-> 0, mi |-> 0,
   year |-> 0 - 1, month |-> 0 - 1, day |-> 0 - 1,
   hour |-> 0 - 1, minute |-> 0 - 1, second |-> 0 - 1, micro |-> 0 - 1,
   wd |-> FALSE, tzname |-> NoName, tzset |-> FALSE, tzoff |-> 0, ok |-> TRUE]

\* a ValueError or IndexError inside _parse: the result is None
Fail(r) == [r EXCEPT !.ok = FALSE]

\* the token k places on exists
Has(r, k) == r.i + k >= 1 /\ r.i + k <= Len(r.tk)

T(r, k) == r.tk[r.i + k]

Skip(r, k) == [r EXCEPT !.i = @ + k]

\* _ymd.append(val, label): the member, whether it names its century, the label
AppendMember(r, v, cent, label) ==
  IF ~r.ok THEN r
  ELSE IF label = "M" /\ r.mi # 0 THEN Fail(r)
  ELSE IF label = "Y" /\ r.yi # 0 THEN Fail(r)
  ELSE [r EXCEPT !.ymd = Append(@, v), !.cent = @ \/ cent,
                 !.mi = IF label = "M" THEN Len(r.ymd) + 1 ELSE @,
                 !.yi = IF label = "Y" THEN Len(r.ymd) + 1 ELSE @]

\* append of a string: more than two digits name the century and a year
AppendStr(r, d, label) ==
  IF ~r.ok THEN r
  ELSE IF ~IntOk(d) THEN Fail(r)
  ELSE AppendMember(r, TokInt(d), Len(d) > 2, IF Len(d) > 2 THEN "Y" ELSE label)

\* append of a Decimal: above 100 it names the century and a year
AppendNum(r, t, label) ==
  AppendMember(r, Whole(t), Above100(t), IF Above100(t) THEN "Y" ELSE label)

AppendMonth(r, m) == AppendMember(r, m, FALSE, "M")

\* res.hour = int(d) and its like
SetHour(r, d) ==
  IF ~r.ok THEN r ELSE IF ~IntOk(d) THEN Fail(r) ELSE [r EXCEPT !.hour = TokInt(d)]

SetMinute(r, d) ==
  IF ~r.ok THEN r ELSE IF ~IntOk(d) THEN Fail(r) ELSE [r EXCEPT !.minute = TokInt(d)]

SetSecond(r, d) ==
  IF ~r.ok THEN r ELSE IF ~IntOk(d) THEN Fail(r) ELSE [r EXCEPT !.second = TokInt(d)]

\* (res.second, res.microsecond) = _parsems(v)
Parsems(r, v) ==
  IF ~r.ok THEN r
  ELSE IF ~MsOk(v) THEN Fail(r)
  ELSE [r EXCEPT !.second = MsSecond(v), !.micro = MsMicro(v)]

\* (res.minute, res.second) = _parse_min_sec(Decimal(t)): the second is None
\* again when t has no fraction
MinSec(r, t) ==
  IF ~r.ok THEN r
  ELSE IF ~IsDecimalLiteral(t) \/ ~RemOk(t) THEN Fail(r)
  ELSE [r EXCEPT !.minute = Whole(t),
                 !.second = IF HasFrac(t) THEN Frac60(FracPart(t)) ELSE 0 - 1]

\* _adjust_ampm(hour, ampm)
AdjustAmPm(h, ap) == IF h < 12 /\ ap = 1 THEN h + 12 ELSE IF h = 12 /\ ap = 0 THEN 0 ELSE h

\* _ymd.could_be_day(value): has_day is never set
DayWithin(t, n) == Whole(t) >= 1 /\ (Whole(t) < n \/ (Whole(t) = n /\ ~HasFrac(t)))

CouldBeDay(r, t) ==
  IF r.mi = 0 THEN DayWithin(t, 31)
  ELSE IF r.yi = 0 THEN DayWithin(t, DaysInMonth(2000, r.ymd[r.mi]))
  ELSE DayWithin(t, DaysInMonth(r.ymd[r.yi], r.ymd[r.mi]))

\* _parse_numeric_token, YYMMDD or HHMM[SS[.ss]] of a token of six digits
Compact6(r, t) ==
  IF r.ymd = << >> /\ DotPos(t) = {}
  THEN AppendStr(AppendStr(AppendStr(r, SubSeq(t, 1, 2), ""), SubSeq(t, 3, 4), ""),
                 SubSeq(t, 5, Len(t)), "")
  ELSE Parsems(SetMinute(SetHour(r, SubSeq(t, 1, 2)), SubSeq(t, 3, 4)), SubSeq(t, 5, Len(t)))

\* YYYYMMDD[hhmm[ss]]: the hour stays None for eight characters
Compact8Time(r, t) ==
  IF Len(t) = 8 THEN r
  ELSE IF Len(t) = 12 THEN SetMinute(SetHour(r, SubSeq(t, 9, 10)), SubSeq(t, 11, 12))
  ELSE SetSecond(SetMinute(SetHour(r, SubSeq(t, 9, 10)), SubSeq(t, 11, 12)),
                 SubSeq(t, 13, Len(t)))

Compact8(r, t) ==
  Compact8Time(AppendStr(AppendStr(AppendStr(r, SubSeq(t, 1, 4), "Y"), SubSeq(t, 5, 6), ""),
                         SubSeq(t, 7, 8), ""), t)

\* HH[MM] after a complete date
Clock4(r, t) ==
  IF Len(t) = 4 THEN SetMinute(SetHour(r, SubSeq(t, 1, 2)), SubSeq(t, 3, 4))
  ELSE SetHour(r, SubSeq(t, 1, 2))

\* _find_hms_idx: the place, relative to the number, of the word that names its
\* unit; 0 for None
HmsIdx(r) ==
  IF Has(r, 1) /\ HmsOf(T(r, 1)) # 0 - 1 THEN 1
  ELSE IF Has(r, 2) /\ T(r, 1) = << " " >> /\ HmsOf(T(r, 2)) # 0 - 1 THEN 2
  ELSE IF r.i > 1 /\ HmsOf(T(r, 0 - 1)) # 0 - 1 THEN 0 - 1
  ELSE IF r.i > 2 /\ r.i = Len(r.tk) /\ T(r, 0 - 1) = << " " >> /\ HmsOf(T(r, 0 - 2)) # 0 - 1
    THEN 0 - 2
  ELSE 0

\* _assign_hms(res, value_repr, hms)
AssignHms(r, t, h) ==
  IF h = 0 THEN
    (IF ~RemOk(t) THEN Fail(r)
     ELSE [r EXCEPT !.hour = Whole(t),
                    !.minute = IF HasFrac(t) THEN Frac60(FracPart(t)) ELSE @])
  ELSE IF h = 1 THEN MinSec(r, t)
  ELSE IF h = 2 THEN Parsems(r, t)
  ELSE r

\* _parse_hms: the unit word ahead names the unit; a unit word behind names the
\* unit before this one
HmsStep(r, t, k) ==
  IF k > 0 THEN Skip(AssignHms(r, t, HmsOf(T(r, k))), k)
  ELSE AssignHms(r, t, HmsOf(T(r, k)) + 1)

\* HH:MM[:SS[.ss]]
ClockSeconds(r, r2) ==
  IF Has(r, 4) /\ T(r, 3) = << ":" >> THEN Skip(Parsems(r2, T(r, 4)), 4) ELSE Skip(r2, 2)

ClockFrom(r, t) == ClockSeconds(r, MinSec([r EXCEPT !.hour = Whole(t)], T(r, 2)))

\* the second and the third member of a date written with '-', '/' or '.'
DateThird(r, r2) ==
  IF Has(r, 3) /\ T(r, 3) = T(r, 1) THEN
    (IF ~Has(r, 4) THEN Fail(r)
     ELSE IF MonthOf(T(r, 4)) # 0 THEN Skip(AppendMonth(r2, MonthOf(T(r, 4))), 4)
     ELSE Skip(AppendStr(r2, T(r, 4), ""), 4))
  ELSE Skip(r2, 2)

DateSecond(r, r1) ==
  IF StrIsDigit(T(r, 2)) THEN DateThird(r, AppendStr(r1, T(r, 2), ""))
  ELSE IF MonthOf(T(r, 2)) # 0 THEN DateThird(r, AppendMonth(r1, MonthOf(T(r, 2))))
  ELSE Fail(r)

DateFrom(r, t) ==
  IF Has(r, 2) /\ ~Jump(T(r, 2)) THEN DateSecond(r, AppendStr(r, t, ""))
  ELSE Skip(AppendStr(r, t, ""), 1)

\* a number at the end of the text or before a jump word
Alone(r, t) ==
  IF Has(r, 2) /\ AmPmOf(T(r, 2)) # 0 - 1
  THEN Skip([r EXCEPT !.hour = AdjustAmPm(Whole(t), AmPmOf(T(r, 2)))], 2)
  ELSE Skip(AppendNum(r, t, ""), 1)

\* _parse_numeric_token: the branches in the order of the source
NumStep(r, t) ==
  IF ~IsDecimalLiteral(t) THEN Fail(r)
  ELSE IF /\ Len(r.ymd) = 3 /\ Len(t) \in {2, 4} /\ r.hour = 0 - 1
          /\ (~Has(r, 1) \/ (T(r, 1) # << ":" >> /\ HmsOf(T(r, 1)) = 0 - 1))
    THEN Clock4(r, t)
  ELSE IF Len(t) = 6 \/ (Len(t) > 6 /\ DotPos(t) = {7}) THEN Compact6(r, t)
  ELSE IF Len(t) \in {8, 12, 14} THEN Compact8(r, t)
  ELSE IF HmsIdx(r) # 0 THEN HmsStep(r, t, HmsIdx(r))
  ELSE IF Has(r, 2) /\ T(r, 1) = << ":" >> THEN ClockFrom(r, t)
  ELSE IF Has(r, 1) /\ T(r, 1) \in {<< "-" >>, << "/" >>, << "." >>} THEN DateFrom(r, t)
  ELSE IF ~Has(r, 1) \/ Jump(T(r, 1)) THEN Alone(r, t)
  ELSE IF AmPmOf(T(r, 1)) # 0 - 1 /\ Whole(t) < 24
    THEN Skip([r EXCEPT !.hour = AdjustAmPm(Whole(t), AmPmOf(T(r, 1)))], 1)
  ELSE IF CouldBeDay(r, t) THEN AppendNum(r, t, "")
  ELSE Fail(r)

\* a month name: the members that follow it after '-' or '/', or the year after
\* a word that pertains ("Mar of 2023")
MonthThird(r, r2) ==
  IF Has(r, 3) /\ T(r, 3) = T(r, 1) THEN
    (IF ~Has(r, 4) THEN Fail(r) ELSE Skip(AppendStr(r2, T(r, 4), ""), 4))
  ELSE Skip(r2, 2)

MonthPertains(r) ==
  IF ~StrIsDigit(T(r, 4)) THEN Skip(r, 4)
  ELSE IF ~IntOk(T(r, 4)) THEN Fail(r)
  ELSE Skip(AppendMember(r, ConvertYear(TokInt(T(r, 4)), FALSE, r.started), TRUE, "Y"), 4)

MonthStep(r) ==
  IF ~r.ok \/ ~Has(r, 1) THEN r
  ELSE IF T(r, 1) \in {<< "-" >>, << "/" >>} THEN
    (IF ~Has(r, 2) THEN Fail(r) ELSE MonthThird(r, AppendStr(r, T(r, 2), "")))
  ELSE IF /\ Has(r, 4) /\ T(r, 1) = << " " >> /\ T(r, 3) = << " " >> /\ Pertain(T(r, 2))
    THEN MonthPertains(r)
  ELSE r

\* _ampm_valid and the adjustment of the hour
AmPmStep(r, ap) ==
  IF r.hour = 0 - 1 \/ r.hour > 12 THEN Fail(r)
  ELSE [r EXCEPT !.hour = AdjustAmPm(@, ap)]

\* _could_be_tzname(hour, tzname, tzoffset, token)
CouldBeTzName(r, noOffset, t) ==
  /\ r.hour # 0 - 1 /\ r.tzname = NoName /\ noOffset /\ Len(t) <= 5
  /\ ((\A k \in 1..Len(t) : IsUpperChar(t[k])) \/ t \in {<< "U", "T", "C" >>, << "G", "M", "T" >>, << "Z" >>, << "z" >>})

\* a zone name; a sign after it is read the other way round ("GMT+3")
TzNameStep(r, t) ==
  IF Has(r, 1) /\ T(r, 1) \in {<< "+" >>, << "-" >>}
  THEN [r EXCEPT !.tk[r.i + 1] = IF T(r, 1) = << "+" >> THEN << "-" >> ELSE << "+" >>,
                 !.tzset = FALSE, !.tzoff = 0,
                 !.tzname = IF UtcZone(t) THEN NoName ELSE t]
  ELSE [r EXCEPT !.tzname = t, !.tzset = (t = << "z" >>), !.tzoff = 0]

\* "(NAME)" after a numeric offset
OffsetName(r) ==
  IF /\ Has(r, 5) /\ Jump(T(r, 2)) /\ T(r, 3) = << "(" >> /\ T(r, 5) = << ")" >>
     /\ Len(T(r, 4)) >= 3 /\ CouldBeTzName(r, TRUE, T(r, 4))
  THEN Skip([r EXCEPT !.tzname = T(r, 4)], 5)
  ELSE Skip(r, 1)

OffsetSet(r, hh, mm, k) ==
  IF ~IntOk(hh) \/ ~IntOk(mm) THEN Fail(r)
  ELSE OffsetName(Skip([r EXCEPT !.tzset = TRUE,
                                 !.tzoff = (IF T(r, 0) = << "+" >> THEN 1 ELSE 0 - 1)
                                             * (TokInt(hh) * 3600 + TokInt(mm) * 60)], k))

\* a numeric offset: +hhmm, +hh:mm, +hh
OffsetStep(r) ==
  IF ~Has(r, 1) THEN Fail(r)
  ELSE IF Len(T(r, 1)) = 4 THEN OffsetSet(r, SubSeq(T(r, 1), 1, 2), SubSeq(T(r, 1), 3, 4), 0)
  ELSE IF Has(r, 2) /\ T(r, 2) = << ":" >> THEN
    (IF ~Has(r, 3) THEN Fail(r) ELSE OffsetSet(r, T(r, 1), T(r, 3), 2))
  ELSE IF Len(T(r, 1)) <= 2 THEN OffsetSet(r, T(r, 1), << "0" >>, 0)
  ELSE Fail(r)

\* a token that is no number, in the order of the source
WordStep(r, t) ==
  IF IsWeekday(t) THEN [r EXCEPT !.wd = TRUE]
  ELSE IF MonthOf(t) # 0 THEN MonthStep(AppendMonth(r, MonthOf(t)))
  ELSE IF AmPmOf(t) # 0 - 1 THEN AmPmStep(r, AmPmOf(t))
  ELSE IF CouldBeTzName(r, ~r.tzset, t) THEN TzNameStep(r, t)
  ELSE IF r.hour # 0 - 1 /\ t \in {<< "+" >>, << "-" >>} THEN OffsetStep(r)
  ELSE IF Jump(t) THEN r
  ELSE Fail(r)

Step(r) == IF IsNumTok(T(r, 0)) THEN NumStep(r, T(r, 0)) ELSE WordStep(r, T(r, 0))

\* the loop of _parse over the tokens
RECURSIVE Walk(_)
Walk(r) == IF ~r.ok \/ r.i > Len(r.tk) THEN r ELSE Walk(Skip(Step(r), 1))

\* ---- _ymd.resolve_ymd: the roles of the members (-1: None)
Roles(r, y, mo, d) == [r EXCEPT !.year = y, !.month = mo, !.day = d]

Labelled(r) == (IF r.yi # 0 THEN 1 ELSE 0) + (IF r.mi # 0 THEN 1 ELSE 0)

\* _resolve_from_stridxs: the labelled members, the third by elimination
Unlabelled(r) == CHOOSE k \in 1..3 : k # r.yi /\ k # r.mi

FromLabels(r) ==
  Roles(r, IF r.yi # 0 THEN r.ymd[r.yi] ELSE 0 - 1,
           IF r.mi # 0 THEN r.ymd[r.mi] ELSE 0 - 1,
           IF Len(r.ymd) = 3 /\ Labelled(r) = 2 THEN r.ymd[Unlabelled(r)] ELSE 0 - 1)

\* the member next to a month name: self[mstridx - 1], the last one when the
\* month comes first
BesideMonth(r) == IF r.mi = 0 THEN r.ymd[1] ELSE IF r.mi = 1 THEN r.ymd[Len(r.ymd)] ELSE r.ymd[r.mi - 1]

OneOrMonth(r) ==
  IF Len(r.ymd) > 1 \/ r.mi = 0
  THEN (IF BesideMonth(r) > 31
        THEN Roles(r, BesideMonth(r), IF r.mi # 0 THEN r.ymd[r.mi] ELSE 0 - 1, 0 - 1)
        ELSE Roles(r, 0 - 1, IF r.mi # 0 THEN r.ymd[r.mi] ELSE 0 - 1, BesideMonth(r)))
  ELSE Roles(r, 0 - 1, r.ymd[r.mi], 0 - 1)

TwoNumbers(r) ==
  IF r.ymd[1] > 31 THEN Roles(r, r.ymd[1], r.ymd[2], 0 - 1)
  ELSE IF r.ymd[2] > 31 THEN Roles(r, r.ymd[2], r.ymd[1], 0 - 1)
  ELSE Roles(r, 0 - 1, r.ymd[1], r.ymd[2])

\* three members, month first unless a label or a size says otherwise
\* (dayfirst and yearfirst are False)
ThreeMembers(r) ==
  IF r.mi = 1 THEN
    (IF r.ymd[2] > 31 THEN Roles(r, r.ymd[2], r.ymd[1], r.ymd[3])
     ELSE Roles(r, r.ymd[3], r.ymd[1], r.ymd[2]))
  ELSE IF r.mi = 2 THEN
    (IF r.ymd[1] > 31 THEN Roles(r, r.ymd[1], r.ymd[2], r.ymd[3])
     ELSE Roles(r, r.ymd[3], r.ymd[2], r.ymd[1]))
  ELSE IF r.mi = 3 THEN
    (IF r.ymd[2] > 31 THEN Roles(r, r.ymd[2], r.ymd[3], r.ymd[1])
     ELSE Roles(r, r.ymd[1], r.ymd[3], r.ymd[2]))
  ELSE IF r.ymd[1] > 31 \/ r.yi = 1 THEN Roles(r, r.ymd[1], r.ymd[2], r.ymd[3])
  ELSE IF r.ymd[1] > 12 THEN Roles(r, r.ymd[3], r.ymd[2], r.ymd[1])
  ELSE Roles(r, r.ymd[3], r.ymd[1], r.ymd[2])

Resolve(r) ==
  IF ~r.ok THEN r
  ELSE IF (Len(r.ymd) = Labelled(r) /\ Labelled(r) > 0) \/ (Len(r.ymd) = 3 /\ Labelled(r) = 2)
    THEN FromLabels(r)
  ELSE IF Len(r.ymd) > 3 THEN Fail(r)
  ELSE IF Len(r.ymd) = 1 \/ (r.mi # 0 /\ Len(r.ymd) = 2) THEN OneOrMonth(r)
  ELSE IF Len(r.ymd) = 2 THEN TwoNumbers(r)
  ELSE IF Len(r.ymd) = 3 THEN ThreeMembers(r)
  ELSE r

\* info.validate(res): the century of a short year, the offset of a UTC name
Validate(r) ==
  IF ~r.ok THEN r
  ELSE IF (r.tzset /\ r.tzoff = 0 /\ r.tzname = NoName) \/ r.tzname \in {<< "Z" >>, << "z" >>}
    THEN [r EXCEPT !.year = IF @ # 0 - 1 THEN ConvertYear(@, r.cent, r.started) ELSE @,
                   !.tzname = << "U", "T", "C" >>, !.tzset = TRUE, !.tzoff = 0]
  ELSE IF ~(r.tzset /\ r.tzoff = 0) /\ r.tzname # NoName /\ UtcZone(r.tzname)
    THEN [r EXCEPT !.year = IF @ # 0 - 1 THEN ConvertYear(@, r.cent, r.started) ELSE @,
                   !.tzset = TRUE, !.tzoff = 0]
  ELSE [r EXCEPT !.year = IF @ # 0 - 1 THEN ConvertYear(@, r.cent, r.started) ELSE @]

\* parser._parse(text): the result, ok = FALSE for (None, None)
Parse(s, started) == Validate(Resolve(Walk(Start(Tokens(s), started))))

\* ---- pandas' dateutil_parse: the result laid over the default date
Or(v, dflt) == IF v = 0 - 1 THEN dflt ELSE v

\* default.replace(**repl) does not raise ValueError
FieldsValid(r, dflt) ==
  /\ Or(r.year, dflt.year) >= 1 /\ Or(r.year, dflt.year) <= 9999
  /\ Or(r.month, dflt.month) >= 1 /\ Or(r.month, dflt.month) <= 12
  /\ Or(r.day, dflt.day) >= 1
  /\ Or(r.day, dflt.day) <= DaysInMonth(Or(r.year, dflt.year), Or(r.month, dflt.month))
  /\ Or(r.hour, 0) <= 23 /\ Or(r.minute, 0) <= 59 /\ Or(r.second, 0) <= 59

\* the names of the machine's own zone, time.tzname: the machine keeps UTC
LocalZoneNames == {<< "U", "T", "C" >>}

\* the offset pandas gives the result: within a day, or ok = FALSE
ZoneOf(r) ==
  IF r.tzname # NoName /\ r.tzname \in LocalZoneNames THEN [ok |-> TRUE, off |-> 0]
  ELSE IF ~r.tzset \/ r.tzoff = 0 THEN [ok |-> TRUE, off |-> 0]
  ELSE [ok |-> r.tzoff > 0 - SecPerDay /\ r.tzoff < SecPerDay, off |-> r.tzoff]

Laid(r, dflt) ==
  IF \/ ~r.ok
     \/ (/\ r.year = 0 - 1 /\ r.month = 0 - 1 /\ r.day = 0 - 1 /\ r.hour = 0 - 1
         /\ r.minute = 0 - 1 /\ r.second = 0 - 1 /\ r.micro = 0 - 1)
     \/ ~FieldsValid(r, dflt)
     \/ (r.wd /\ r.day = 0 - 1)
     \/ ~ZoneOf(r).ok
  THEN NoStamp
  ELSE Stamp(Or(r.year, dflt.year), Or(r.month, dflt.month), Or(r.day, dflt.day),
             Or(r.hour, 0) * 3600 + Or(r.minute, 0) * 60 + Or(r.second, 0),
             Or(r.micro, 0) * 1000, ZoneOf(r).off)

DateutilParse(s, dflt, started) == Laid(Parse(s, started), dflt)

\* ---- pandas' parse_iso_8601_datetime (np_datetime_strings.c), stage by stage;
\* i is the character read next
IsoFail == NoStamp

Dg(s, i) == i >= 1 /\ i <= Len(s) /\ s[i] \in DecimalChars

SkipSpaces(s, i) ==
  CHOOSE j \in i..(Len(s) + 1) :
    (\A k \in i..(j - 1) : s[k] = " ") /\ (j = Len(s) + 1 \/ s[j] # " ")

\* one or two digits at i: the value and the place after them
TwoDigits(s, i) ==
  IF Dg(s, i + 1) THEN [v |-> 10 * DigitVal(s[i]) + DigitVal(s[i + 1]), e |-> i + 2, two |-> TRUE]
  ELSE [v |-> DigitVal(s[i]), e |-> i + 1, two |-> FALSE]

\* trailing blanks, then the end of the text
IsoEnd(s, i, o) == IF SkipSpaces(s, i) > Len(s) THEN o ELSE IsoFail

IsoOffsetSet(s, o, neg, oh, om) ==
  IF om.v >= 60 THEN IsoFail
  ELSE IsoEnd(s, om.e, [o EXCEPT !.off = (IF neg THEN 0 - 1 ELSE 1) * (3600 * oh.v + 60 * om.v)])

IsoOffsetMin(s, o, neg, oh, j) ==
  IF ~Dg(s, j) THEN IsoFail ELSE IsoOffsetSet(s, o, neg, oh, TwoDigits(s, j))

IsoOffsetHour(s, o, neg, oh) ==
  IF oh.two /\ oh.v >= 24 THEN IsoFail
  ELSE IF oh.e > Len(s)
    THEN [o EXCEPT !.off = (IF neg THEN 0 - 1 ELSE 1) * 3600 * oh.v]
  ELSE IsoOffsetMin(s, o, neg, oh, IF s[oh.e] = ":" THEN oh.e + 1 ELSE oh.e)

IsoZoneAt(s, i, o) ==
  IF i > Len(s) THEN o
  ELSE IF s[i] = "Z" THEN IsoEnd(s, i + 1, o)
  ELSE IF s[i] \in {"+", "-"} THEN
    (IF Dg(s, i + 1) THEN IsoOffsetHour(s, o, s[i] = "-", TwoDigits(s, i + 1)) ELSE IsoFail)
  ELSE IsoEnd(s, i, o)

IsoZone(s, i, o) == IsoZoneAt(s, SkipSpaces(s, i), o)

\* up to eighteen fraction digits are read, the first nine kept
FracEnd(s, i) ==
  CHOOSE j \in i..(Len(s) + 1) :
    /\ j <= i + 18
    /\ \A k \in i..(j - 1) : Dg(s, k)
    /\ (j = i + 18 \/ ~Dg(s, j))

IsoFraction(s, i, o) ==
  IsoZone(s, FracEnd(s, i),
          [o EXCEPT !.ns = DigitsValue(SubSeq(SubSeq(s, i, FracEnd(s, i) - 1)
                                  \o << "0", "0", "0", "0", "0", "0", "0", "0", "0" >>, 1, 9))])

IsoSecondSet(s, o, hsep, sec) ==
  IF (sec.two /\ sec.v >= 60) \/ (~sec.two /\ ~hsep) THEN IsoFail
  ELSE IF sec.e <= Len(s) /\ s[sec.e] = "."
    THEN IsoFraction(s, sec.e + 1, [o EXCEPT !.sec = @ + sec.v])
  ELSE IsoZone(s, sec.e, [o EXCEPT !.sec = @ + sec.v])

IsoAfterMinute(s, i, o, hsep) ==
  IF i > Len(s) THEN o
  ELSE IF hsep /\ s[i] = ":" THEN
    (IF Dg(s, i + 1) THEN IsoSecondSet(s, o, hsep, TwoDigits(s, i + 1)) ELSE IsoFail)
  ELSE IF ~hsep /\ Dg(s, i) THEN IsoSecondSet(s, o, hsep, TwoDigits(s, i))
  ELSE IsoZone(s, i, o)

IsoMinuteSet(s, o, hsep, mi) ==
  IF (mi.two /\ mi.v >= 60) \/ (~mi.two /\ ~hsep) THEN IsoFail
  ELSE IsoAfterMinute(s, mi.e, [o EXCEPT !.sec = @ + 60 * mi.v], hsep)

IsoAfterHour(s, i, o, two) ==
  IF i > Len(s) THEN (IF two THEN o ELSE IsoFail)
  ELSE IF s[i] = ":" THEN
    (IF Dg(s, i + 1) THEN IsoMinuteSet(s, o, TRUE, TwoDigits(s, i + 1)) ELSE IsoFail)
  ELSE IF ~Dg(s, i) THEN (IF two THEN IsoZone(s, i, o) ELSE IsoFail)
  ELSE IsoMinuteSet(s, o, FALSE, TwoDigits(s, i))

IsoHourSet(s, o, h) ==
  IF h.two /\ h.v >= 24 THEN IsoFail
  ELSE IsoAfterHour(s, h.e, [o EXCEPT !.sec = 3600 * h.v], h.two)

IsoAfterDay(s, i, o) ==
  IF i > Len(s) THEN o
  ELSE IF s[i] \notin {"T", " "} \/ i = Len(s) \/ ~Dg(s, i + 1) THEN IsoFail
  ELSE IsoHourSet(s, o, TwoDigits(s, i + 1))

\* is_leapyear of the C code, for a year of either sign
IsoLeap(y) == IsLeap(IF y < 0 THEN 0 - y ELSE y)

IsoDaySet(s, o, sep, d) ==
  IF (~d.two /\ sep = "") \/ d.v < 1
     \/ d.v > (IF o.month = 2 THEN (IF IsoLeap(o.year) THEN 29 ELSE 28)
               ELSE DaysInMonth(1, o.month))
  THEN IsoFail
  ELSE IsoAfterDay(s, d.e, [o EXCEPT !.day = d.v])

IsoAfterMonth(s, i, o, sep) ==
  IF i > Len(s) THEN (IF sep = "" THEN IsoFail ELSE o)
  ELSE IF sep # "" THEN
    (IF s[i] # sep \/ i = Len(s) \/ ~Dg(s, i + 1) THEN IsoFail
     ELSE IsoDaySet(s, o, sep, TwoDigits(s, i + 1)))
  ELSE IF ~Dg(s, i) THEN IsoFail
  ELSE IsoDaySet(s, o, sep, TwoDigits(s, i))

IsoMonthSet(s, o, sep, mo) ==
  IF (~mo.two /\ sep = "") \/ mo.v < 1 \/ mo.v > 12 THEN IsoFail
  ELSE IsoAfterMonth(s, mo.e, [o EXCEPT !.month = mo.v], sep)

\* the separators of year, month and day
IsoSeparators == {"-", ".", "/", "backslash", " "}

IsoAfterYear(s, i, o) ==
  IF i > Len(s) THEN o
  ELSE IF Dg(s, i) THEN IsoMonthSet(s, o, "", TwoDigits(s, i))
  ELSE IF s[i] \in IsoSeparators /\ Dg(s, i + 1) THEN IsoMonthSet(s, o, s[i], TwoDigits(s, i + 1))
  ELSE IsoFail

\* the year is 0 unless four digits stand here; a leading '-' negates it
IsoYear(s, i) ==
  IF i > Len(s) THEN IsoFail
  ELSE IF Dg(s, i) /\ Dg(s, i + 1) /\ Dg(s, i + 2) /\ Dg(s, i + 3)
    THEN IsoAfterYear(s, i + 4,
           Stamp((IF s[1] = "-" THEN 0 - 1 ELSE 1) * DigitsValue(SubSeq(s, i, i + 3)),
                 1, 1, 0, 0, 0))
  ELSE IsoAfterYear(s, i, Stamp(0, 1, 1, 0, 0, 0))

IsoSign(s, i) == IF i <= Len(s) /\ s[i] = "-" THEN i + 1 ELSE i

IsoParse(s) == IsoYear(s, IsoSign(s, SkipSpaces(s, 1)))

\* ---- pandas' parsing.pyx
\* _does_string_look_like_datetime: xstrtod reads [blanks][sign]digits[.digits]
\* [e[sign]digits][blanks]; a text that is wholly such a number below 1000 is
\* no date
DigitRunEnd(s, i) ==
  CHOOSE j \in i..(Len(s) + 1) : (\A k \in i..(j - 1) : Dg(s, k)) /\ ~Dg(s, j)

AfterSign(s, i) == IF i <= Len(s) /\ s[i] \in {"-", "+"} THEN i + 1 ELSE i

\* the int the digits of an exponent add up to: signed 32-bit arithmetic
\* that wraps around
Wrap32(b) ==
  (IF Len(b) >= 1 THEN b[1] ELSE 0) + (IF Len(b) >= 2 THEN b[2] * Base ELSE 0)
    + (IF Len(b) >= 3 THEN ((b[3] % 2) * Base * Base) - ((b[3] \div 2) % 2) * Base * Base
                            - ((b[3] \div 2) % 2) * Base * Base
       ELSE 0)

\* the number read so far: s the text, neg its sign, ip and fp the digit runs
\* either side of the dot, p the place after them
Mantissa(s, p0, p1) ==
  [neg |-> p1 > p0 /\ s[p0] = "-", ip |-> SubSeq(s, p1, DigitRunEnd(s, p1) - 1),
   fp |-> IF DigitRunEnd(s, p1) <= Len(s) /\ s[DigitRunEnd(s, p1)] = "."
          THEN SubSeq(s, DigitRunEnd(s, p1) + 1, DigitRunEnd(s, DigitRunEnd(s, p1) + 1) - 1)
          ELSE << >>,
   p |-> IF DigitRunEnd(s, p1) <= Len(s) /\ s[DigitRunEnd(s, p1)] = "."
         THEN DigitRunEnd(s, DigitRunEnd(s, p1) + 1) ELSE DigitRunEnd(s, p1)]

\* the exponent part at p: its value and the place after it; without digits the
\* place is that of the character before
ExponentAt(s, p) ==
  IF p <= Len(s) /\ s[p] \in {"e", "E"}
  THEN [neg |-> p + 1 <= Len(s) /\ s[p + 1] = "-",
        w |-> Wrap32(BigOfDigits(SubSeq(s, AfterSign(s, p + 1),
                                        DigitRunEnd(s, AfterSign(s, p + 1)) - 1))),
        p |-> IF DigitRunEnd(s, AfterSign(s, p + 1)) = AfterSign(s, p + 1)
              THEN AfterSign(s, p + 1) - 1 ELSE DigitRunEnd(s, AfterSign(s, p + 1))]
  ELSE [neg |-> FALSE, w |-> 0, p |-> p]

\* DBL_MIN_EXP and DBL_MAX_EXP, the exponents xstrtod accepts
MinExponent == 0 - 1021
MaxExponent == 1024

\* the digits alone already exceed the largest double
DigitsOverflow(d) == Len(Sig(d)) >= 309 /\ FloatOfInt(BigIntV(FALSE, BigOfDigits(d))) = Raise

\* the exponent the number is scaled by
ScaleOf(m, x) == (IF x.neg THEN 0 - x.w ELSE x.w) - Len(m.fp)

\* error == 0, the whole text was read, and the number is at least 1000.  The
\* number is compared exactly; the double xstrtod computes differs from it by
\* rounding only.  Digits that overflow scale to NaN, which is no error, from
\* 10^-512 down.
NumberAtLeast1000(s, m, x) ==
  IF m.ip \o m.fp = << >> THEN TRUE
  ELSE IF x.w < 0 - 2000000 \/ x.w > 2000000 THEN TRUE
  ELSE IF ScaleOf(m, x) < MinExponent \/ ScaleOf(m, x) > MaxExponent THEN TRUE
  ELSE IF ~m.neg /\ DigitsOverflow(m.ip \o m.fp) /\ ScaleOf(m, x) > 0 - 512 THEN TRUE
  ELSE IF SkipSpaces(s, x.p) <= Len(s) THEN TRUE
  ELSE /\ ~m.neg /\ ~DigitsOverflow(m.ip \o m.fp) /\ Sig(m.ip \o m.fp) # << >>
       /\ Len(Sig(m.ip \o m.fp)) + ScaleOf(m, x) >= 4

LooksNumber(s, m) == NumberAtLeast1000(s, m, ExponentAt(s, m.p))

NotDatelike == {<< "a" >>, << "A" >>, << "m" >>, << "M" >>, << "p" >>, << "P" >>, << "t" >>, << "T" >>}

LooksLikeDatetime(s) ==
  IF s # << >> /\ s[1] = "0" THEN TRUE
  ELSE IF s \in NotDatelike THEN FALSE
  ELSE LooksNumber(s, Mantissa(s, SkipSpaces(s, 1), AfterSign(s, SkipSpaces(s, 1))))

\* _does_string_look_like_time: h:MM or HH:MM at the start of the text
LooksLikeTime(s) ==
  /\ Len(s) >= 4
  /\ \/ (/\ s[2] = ":" /\ Dg(s, 1) /\ Dg(s, 3) /\ Dg(s, 4)
         /\ 10 * DigitVal(s[3]) + DigitVal(s[4]) <= 59)
     \/ (/\ s[2] # ":" /\ s[3] = ":" /\ Dg(s, 1) /\ Dg(s, 2) /\ Dg(s, 4) /\ Dg(s, 5)
         /\ 10 * DigitVal(s[1]) + DigitVal(s[2]) <= 23
         /\ 10 * DigitVal(s[4]) + DigitVal(s[5]) <= 59)

\* _parse_delimited_date: MM/DD/YYYY, M/DD/YYYY, MM/D/YYYY, M/D/YYYY and MM/YYYY
\* with any of the delimiters; kind "none" when the text has no such form,
\* "error" when the form holds no date
Delimiters == {" ", "/", "-", "."}

Digits(s, a, b) == IF \A k \in a..b : Dg(s, k) THEN DigitsValue(SubSeq(s, a, b)) ELSE 0 - 1

NoForm == [kind |-> "none", month |-> 0, day |-> 0, year |-> 0, swap |-> FALSE]

Form(mo, d, y, swap) == [kind |-> "form", month |-> mo, day |-> d, year |-> y, swap |-> swap]

DelimitedForm(s) ==
  IF \E k \in 1..Len(s) : s[k] \in {Sup2, EmDash} THEN NoForm
  ELSE IF Len(s) = 10 /\ s[3] \in Delimiters /\ s[6] \in Delimiters
    THEN Form(Digits(s, 1, 2), Digits(s, 4, 5), Digits(s, 7, 10), TRUE)
  ELSE IF Len(s) = 9 /\ s[2] \in Delimiters /\ s[5] \in Delimiters
    THEN Form(Digits(s, 1, 1), Digits(s, 3, 4), Digits(s, 6, 9), TRUE)
  ELSE IF Len(s) = 9 /\ s[3] \in Delimiters /\ s[5] \in Delimiters
    THEN Form(Digits(s, 1, 2), Digits(s, 4, 4), Digits(s, 6, 9), TRUE)
  ELSE IF Len(s) = 8 /\ s[2] \in Delimiters /\ s[4] \in Delimiters
    THEN Form(Digits(s, 1, 1), Digits(s, 3, 3), Digits(s, 5, 8), TRUE)
  ELSE IF Len(s) = 7 /\ s[3] \in Delimiters /\ s[3] # "."
    THEN Form(Digits(s, 1, 2), 1, Digits(s, 4, 7), FALSE)
  ELSE NoForm

DelimitedDate(f) ==
  IF f.kind = "none" \/ f.month < 0 \/ f.day < 0 \/ f.year < 1000 THEN [kind |-> "none"]
  ELSE IF /\ f.month >= 1 /\ f.month <= 31 /\ f.day >= 1 /\ f.day <= 31
          /\ (f.month <= 12 \/ f.day <= 12)
    THEN (IF f.month > 12 /\ f.swap
          THEN (IF f.month <= DaysInMonth(f.year, f.day)
                THEN [kind |-> "date", st |-> Stamp(f.year, f.day, f.month, 0, 0, 0)]
                ELSE [kind |-> "error"])
          ELSE IF f.month <= 12 /\ f.day <= DaysInMonth(f.year, f.month)
            THEN [kind |-> "date", st |-> Stamp(f.year, f.month, f.day, 0, 0, 0)]
          ELSE [kind |-> "error"])
  ELSE [kind |-> "error"]

Delimited(s) == DelimitedDate(DelimitedForm(s))

\* int(t) of a text of at most four characters: blanks around it, a sign,
\* digits with single underscores between them
IntBody(t) == Unsigned(Strip(t))

PyIntOk(t) ==
  /\ IntBody(t) # << >>
  /\ IntBody(t)[1] \in DecimalChars /\ IntBody(t)[Len(IntBody(t))] \in DecimalChars
  /\ \A k \in 1..Len(IntBody(t)) :
       IntBody(t)[k] \in DecimalChars
         \/ (IntBody(t)[k] = "_" /\ IntBody(t)[k - 1] # "_")

PyIntOf(t) ==
  (IF Strip(t)[1] = "-" THEN 0 - 1 ELSE 1)
    * DigitsValue(SelectSeq(IntBody(t), LAMBDA c : c \in DecimalChars))

\* the quarter forms nQyy, nQyyyy, yyQn, yyyyQn, with or without '-': the place
\* of the Q among the first six characters decides; kind "none" is ValueError,
\* "error" DateParseError
QPlace(u) ==
  IF \E k \in 2..6 : k <= Len(u) /\ u[k] = "Q"
  THEN CHOOSE k \in 2..6 : k <= Len(u) /\ u[k] = "Q" /\ \A j \in 2..(k - 1) : u[j] # "Q"
  ELSE 0

Tail2(u) == SubSeq(u, Len(u) - 1, Len(u))

Tail4(u) == SubSeq(u, Len(u) - 3, Len(u))

\* the texts of the quarter and of the year, and the century added to the year
QuarterTexts(u, q) ==
  IF q = 2 THEN
    (IF Len(u) = 4 \/ (Len(u) = 5 /\ u[q + 1] = "-")
       THEN [ok |-> TRUE, q |-> << u[1] >>, y |-> Tail2(u), add |-> 2000, qfirst |-> TRUE]
     ELSE IF Len(u) = 6 \/ (Len(u) = 7 /\ u[q + 1] = "-")
       THEN [ok |-> TRUE, q |-> << u[1] >>, y |-> Tail4(u), add |-> 0, qfirst |-> TRUE]
     ELSE [ok |-> FALSE])
  ELSE IF q \in {3, 4} THEN
    (IF Len(u) = 4 \/ (Len(u) = 5 /\ u[q - 1] = "-")
       THEN [ok |-> TRUE, q |-> << u[Len(u)] >>, y |-> SubSeq(u, 1, 2), add |-> 2000,
             qfirst |-> FALSE]
     ELSE [ok |-> FALSE])
  ELSE IF q \in {5, 6} THEN
    (IF Len(u) = 6 \/ (Len(u) = 7 /\ u[q - 1] = "-")
       THEN [ok |-> TRUE, q |-> << u[Len(u)] >>, y |-> SubSeq(u, 1, 4), add |-> 0,
             qfirst |-> FALSE]
     ELSE [ok |-> FALSE])
  ELSE [ok |-> FALSE]

\* the conversions in the order the code makes them: with the quarter first a
\* year that is no int is a ValueError before the quarter is looked at
QuarterDate(x) ==
  IF ~x.ok THEN [kind |-> "none"]
  ELSE IF ~PyIntOk(x.q) THEN [kind |-> "none"]
  ELSE IF ~PyIntOk(x.y) THEN [kind |-> "none"]
  ELSE IF PyIntOf(x.q) < 1 \/ PyIntOf(x.q) > 4 THEN [kind |-> "error"]
  ELSE IF PyIntOf(x.y) + x.add < 1 \/ PyIntOf(x.y) + x.add > 9999 THEN [kind |-> "none"]
  ELSE [kind |-> "date",
        st |-> Stamp(PyIntOf(x.y) + x.add, (PyIntOf(x.q) - 1) * 3 + 1, 1, 0, 0, 0)]

\* datetime.strptime(u, ...) for "%Y-%m", "%b %Y" and "%b-%Y" in the C locale
MonthAbbr(t) ==
  IF \E k \in 1..12 : LowerText(t) \in MonthWords[k] /\ Len(t) = 3
  THEN CHOOSE k \in 1..12 : LowerText(t) \in MonthWords[k] ELSE 0

YearMonth(u) ==
  IF /\ Len(u) \in {6, 7} /\ Digits(u, 1, 4) >= 1 /\ u[5] = "-"
     /\ Digits(u, 6, Len(u)) >= 1 /\ Digits(u, 6, Len(u)) <= 12
  THEN [kind |-> "date", st |-> Stamp(Digits(u, 1, 4), Digits(u, 6, Len(u)), 1, 0, 0, 0)]
  ELSE [kind |-> "none"]

\* the blanks between the month and the year: "%b %Y" takes one or more
BlankRun(u) == SkipSpaces(u, 4)

MonthYear(u) ==
  IF /\ Len(u) >= 8 /\ MonthAbbr(SubSeq(u, 1, 3)) # 0
     /\ \/ (u[4] = " " /\ BlankRun(u) = Len(u) - 3)
        \/ (u[4] = "-" /\ Len(u) = 8)
     /\ Digits(u, Len(u) - 3, Len(u)) >= 1
  THEN [kind |-> "date",
        st |-> Stamp(Digits(u, Len(u) - 3, Len(u)), MonthAbbr(SubSeq(u, 1, 3)), 1, 0, 0, 0)]
  ELSE [kind |-> "none"]

Strptime(u) == IF YearMonth(u).kind = "date" THEN YearMonth(u) ELSE MonthYear(u)

\* _parse_dateabbr_string on the upper-cased text
YearAlone(u) ==
  Len(u) = 4 /\ PyIntOk(u) /\ PyIntOf(u) >= 1 /\ PyIntOf(u) <= 9999

QuarterOf(u) ==
  IF Len(u) >= 4 /\ Len(u) <= 7 /\ QPlace(u) # 0 THEN QuarterDate(QuarterTexts(u, QPlace(u)))
  ELSE [kind |-> "none"]

DateAbbr(u) ==
  IF YearAlone(u) THEN [kind |-> "date", st |-> Stamp(PyIntOf(u), 1, 1, 0, 0, 0)]
  ELSE IF QuarterOf(u).kind # "none" THEN QuarterOf(u)
  ELSE Strptime(u)

\* the strings pandas reads as NaT
NatStrings == {<< "N", "a", "T" >>, << "n", "a", "t" >>, << "N", "A", "T" >>, << "n", "a", "n" >>, << "N", "a", "N" >>, << "N", "A", "N" >>}

\* parse_datetime_string: a time of day is laid over today, everything else
\* over 0001-01-01
Year1 == [year |-> 1, month |-> 1, day |-> 1]

AbbrOrDateutil(s, ab, started) ==
  IF ab.kind = "error" THEN NoStamp
  ELSE IF ab.kind = "date" THEN ab.st
  ELSE DateutilParse(s, Year1, started)

DelimitedOrAbbr(s, dl, started) ==
  IF dl.kind = "error" THEN NoStamp
  ELSE IF dl.kind = "date" THEN dl.st
  ELSE AbbrOrDateutil(s, DateAbbr(UpperText(s)), started)

ParseDatetimeString(s, clock) ==
  IF ~LooksLikeDatetime(s) THEN NoStamp
  ELSE IF LooksLikeTime(s) THEN DateutilParse(s, clock, clock.started)
  ELSE DelimitedOrAbbr(s, Delimited(s), clock.started)

\* pd.to_datetime(text, errors="coerce"): the ISO 8601 reading first, then
\* "now" and "today", then the general parser
IsoOrGeneral(s, iso, clock) ==
  IF iso.ok THEN iso
  ELSE IF s \in {<< "n", "o", "w" >>, << "t", "o", "d", "a", "y" >>} THEN Stamp(clock.year, clock.month, clock.day, 0, 0, 0)
  ELSE ParseDatetimeString(s, clock)

TextStamp(s, clock) ==
  IF s = << >> \/ s \in NatStrings THEN NoStamp ELSE IsoOrGeneral(s, IsoParse(s), clock)

\* the date pd.to_datetime(text, errors="coerce") yields, ok = FALSE for NaT
ParseDateText(s, clock) == DateOf(TextStamp(s, clock))


\* ---- pd.to_datetime(number, unit=..., origin=...): the number as int64
\* nanoseconds.  A whole number is a sign and a magnitude.
Whole64(neg, m) == [ok |-> TRUE, neg |-> neg /\ m # << >>, m |-> m]

NoWhole == [ok |-> FALSE, neg |-> FALSE, m |-> << >>]

\* the largest int64; the smallest one is NaT
Int64Max == BigSub(BigShl(<< 1 >>, 63), << 1 >>)

InInt64(a) == a.ok /\ BigCmp(a.m, Int64Max) <= 0

\* a + b
WholeAdd(a, b) ==
  IF a.neg = b.neg THEN Whole64(a.neg, BigAdd(a.m, b.m))
  ELSE IF BigCmp(a.m, b.m) >= 0 THEN Whole64(a.neg, BigSub(a.m, b.m))
  ELSE Whole64(b.neg, BigSub(b.m, a.m))

\* a * mult, OutOfBoundsDatetime when it leaves the int64
WholeTimes(a, mult) ==
  IF InInt64(a) /\ BigCmp(BigMul(a.m, mult), Int64Max) <= 0
  THEN Whole64(a.neg, BigMul(a.m, mult)) ELSE NoWhole

\* np.array([n]): an int from 2^63 to 2^64 - 1 makes a uint64 array, whose
\* cast to datetime64 reads the same bits as an int64
AsInt64(a) ==
  IF ~a.neg /\ BigCmp(a.m, Int64Max) > 0 /\ BitLen(a.m) <= 64
  THEN Whole64(TRUE, BigSub(BigShl(<< 1 >>, 64), a.m)) ELSE a

\* an int of the unit mult nanoseconds
IntNanos(a, mult) == WholeTimes(AsInt64(a), mult)

\* the float x - base, base the whole part of x
FracOf(x) == FloatAdd(x, Float(~x.neg, Trunc(x), 0))

\* trunc(round(frac, p) * mult)
FracNanos(frac, mult, p) ==
  Whole64(frac.neg, Trunc(FloatMul(PyRound(frac, p), Float(FALSE, mult, 0))))

SumInInt64(s) == IF InInt64(s) THEN s ELSE NoWhole

\* a float of the unit mult nanoseconds: the whole part times mult plus the
\* fraction, rounded to p places, times mult; inf and a float whose whole part
\* or whose nanoseconds leave the int64 raise
FloatNanos(x, mult, p) ==
  IF x.t # "float" THEN NoWhole
  ELSE IF ~WholeTimes(Whole64(x.neg, Trunc(x)), mult).ok THEN NoWhole
  ELSE SumInInt64(WholeAdd(WholeTimes(Whole64(x.neg, Trunc(x)), mult),
                           FracNanos(FracOf(x), mult, p)))

\* the nanoseconds of a day and of a millisecond, and the decimal places the
\* fraction of a float keeps in each unit (the digits of the multiplier less one)
NsPerDay == BigMulPow10(BigOf(SecPerDay), 9)

NsPerMs == BigPow10(6)

DayPlaces == 13

MsPlaces == 6

\* the day number (from 1970-01-01) of int64 nanoseconds: the floor of the
\* quotient by NsPerDay, taken by 10^9, by 3600 and by 24
DayParts(s, h, d) ==
  [q |-> SmallOf(d.q), rest |-> s.lost \/ h.r # 0 \/ d.r # 0]

DaySplit(s) ==
  DayParts(s, BigDivSmall(s.q, 3600), BigDivSmall(BigDivSmall(s.q, 3600).q, 24))

FloorDay(ns, p) ==
  IF ~ns.neg THEN p.q ELSE IF p.rest THEN 0 - p.q - 1 ELSE 0 - p.q

DayOfNanos(ns) == FloorDay(ns, DaySplit(BigDivPow10(ns.m, 9)))

\* the date of a conversion; ok = FALSE when it raised
DateOfNanos(ns) ==
  IF ns.ok THEN [ok |-> TRUE, c |-> CivilFromDays(DayOfNanos(ns))] ELSE NotADate

WholeOf(v) == Whole64(v.neg, v.m)

\* line 48: pd.to_datetime(v, unit="D", origin="1899-12-30"); the origin is
\* added to the number first, as an int to an int or a bool and as a float to a
\* float
DayCountDate(v) ==
  IF IsInt(v)
  THEN DateOfNanos(IntNanos(WholeAdd(WholeOf(v), Whole64(ExcelOrigin < 0, BigOf(0 - ExcelOrigin))),
                            NsPerDay))
  ELSE DateOfNanos(FloatNanos(FloatAdd(v, FloatLit(ExcelOrigin, 0)), NsPerDay, DayPlaces))

\* line 53: pd.to_datetime(v, unit="ms", origin="unix")
UnixMsDate(v) ==
  IF v.t = "int" THEN DateOfNanos(IntNanos(WholeOf(v), NsPerMs))
  ELSE IF v.t = "bool" THEN NotADate
  ELSE DateOfNanos(FloatNanos(v, NsPerMs, MsPlaces))

\* d.strftime("%m/%d/%Y") of a conversion that succeeded
Formatted(conv) == StrV(Strftime(conv.c))

\* lines 57-63: the text of the value parsed as a date, None when it is not one
FromText(txt) == IF txt.ok THEN Formatted(txt) ELSE NoneV

\* lines 52-56: the millisecond reading, then the text
FromMs(v, ms, clock) ==
  IF ms.ok THEN Formatted(ms) ELSE FromText(ParseDateText(PyStr(v), clock))

\* lines 47-51: the day-count reading first
FromDayCount(v, dc, clock) ==
  IF dc.ok THEN Formatted(dc) ELSE FromMs(v, UnixMsDate(v), clock)

\* normalize_excel_date(v) run under the clock: StrV(MM/DD/YYYY), NoneV, or
\* Raise.  pandas.NaT is an instance of datetime whose year is nan:
\* datetime(nan, ...) at line 45 raises TypeError, outside every try block.
normalize_excel_date(v, clock) ==
  IF v.t \in {"none", "nan"} \/ v = StrV(<< >>) THEN NoneV
  ELSE IF v.t = "nat" THEN Raise
  ELSE IF v.t = "date" THEN
    StrV(Strftime([year |-> v.n \div 10000, month |-> (v.n \div 100) % 100,
                   day |-> v.n % 100]))
  ELSE IF IsInt(v) \/ IsFloat(v) THEN FromDayCount(v, DayCountDate(v), clock)
  ELSE FromText(ParseDateText(PyStr(v), clock))

\* ------------------------------------------------------------------- tables
\* CRAFT_MAP: craft code text -> craft description
CRAFT_MAP ==
  ( NatToChars(1145480) :> "Alloy Mech Days" @@ NatToChars(1145560) :> "AOD Elec Days"
 @@ NatToChars(1146669) :> "AOD Elec Days" @@ NatToChars(1145463) :> "AOD Mech Days"
 @@ NatToChars(1145498) :> "Baghouse Mech Days" @@ NatToChars(1145594) :> "Caster Elec Days"
 @@ NatToChars(1145501) :> "Caster Mech Days" @@ NatToChars(1145551) :> "EAF Elec Days"
 @@ NatToChars(1145674) :> "Turns" @@ NatToChars(1145455) :> "EAF Mech Days"
 @@ NatToChars(1145631) :> "HVAC Elec Days" @@ NatToChars(1145623) :> "Preheater Elec Days"
 @@ NatToChars(1157755) :> "Segment Shop" @@ NatToChars(1145658) :> "Turns"
 @@ NatToChars(1145666) :> "Turns" @@ NatToChars(1146757) :> "Utilities Mech Days"
 @@ NatToChars(1162511) :> "Utilities Mech Days" @@ NatToChars(1152989) :> "WTP Mech Days" )

UnmappedCraft == "(Unmapped Craft)"

EXPECTED_COLS ==
  << "AddressBookNumber", "Name", "Production Date", "OrderNumber", "Sum of Hours.",
     "Hours Estimated", "Status", "Type", "PMFrequency", "Description", "Problem",
     "Lead Area", "Craft", "CostCenter", "UnitNumber", "StructureTag" >>

ExpectedColSet == {EXPECTED_COLS[i] : i \in 1..Len(EXPECTED_COLS)}

\* ------------------------------------------------------------------ variables
VARIABLES
  pc,             \* the statement of the script that runs next
  uploaded,       \* st.file_uploader's value: a workbook, or NoFile
  df,             \* the data frame read from it, or NoDf (None)
  dates,          \* the sorted distinct production dates of the frame
  shown,          \* what st.error / st.exception have reported
  selected_date,  \* the text of the date input
  crafts,         \* build_report's result, or NotBuilt
  calls,          \* how often build_report has been invoked
  pdf,            \* the table data make_pdf lays out, or NoPdf
  craft_map,      \* the module-level CRAFT_MAP dictionary
  arg,            \* the argument of a direct call of a helper
  ret,            \* its result
  clock           \* the clock of the process: today and the year it started in

vars == << pc, uploaded, df, dates, shown, selected_date, crafts, calls, pdf,
           craft_map, arg, ret, clock >>

\* ---------------------------------------------------------------- data frame
NoFile == [kind |-> "none"]
NoDf == [cols |-> {}, rows |-> << >>, none |-> TRUE]
Frame(cols, rows) == [cols |-> cols, rows |-> rows, none |-> FALSE]

\* r.get(col, default) of a row of a frame with columns cols
Get(cols, r, col, default) == IF col \in cols THEN r[col] ELSE default

\* df["Craft"].astype(str).str.strip().map(CRAFT_MAP).fillna("(Unmapped Craft)")
CraftDescNoStrip(cmap, v) ==
  IF PyStr(v) \in DOMAIN cmap THEN cmap[PyStr(v)] ELSE UnmappedCraft

CraftDesc(cmap, v) ==
  IF Strip(PyStr(v)) \in DOMAIN cmap THEN cmap[Strip(PyStr(v))] ELSE UnmappedCraft

\* ------------------------------------------------------------- build_report
\* the text added as it is, untrimmed
AddText_NoStrip(set, v) ==
  IF v.t = "str" /\ Strip(v.s) # << >> THEN set \cup {v.s} ELSE set

\* the set after: if isinstance(v, str) and v.strip(): set.add(v.strip())
AddText(set, v) ==
  IF v.t = "str" /\ Strip(v.s) # << >> THEN set \cup {Strip(v.s)} ELSE set

\* the key without the Name
KeyEq_NoName(k1, k2) == k1[1] = k2[1] /\ PyEq(k1[3], k2[3])

\* key in groups / groups[key]: tuples compare item by item
KeyEq(k1, k2) == k1[1] = k2[1] /\ PyEq(k1[2], k2[2]) /\ PyEq(k1[3], k2[3])

NewBucket(ck, r) ==
  [ Craft |-> ck, Name |-> r["Name"], OrderNumber |-> r["OrderNumber"],
    SumOfHours |-> Zero, Type |-> {}, Description |-> {}, Problem |-> {} ]

\* one pass of the loop body over row r (lines 83-102); += is FloatAdd
GroupStep(cmap, cols, groups, r) ==
  LET ck == CraftDesc(cmap, r["Craft"])
      key == << ck, r["Name"], r["OrderNumber"] >>
      hit == {i \in 1..Len(groups) :
                KeyEq(<< groups[i].Craft, groups[i].Name, groups[i].OrderNumber >>, key)}
      gs == IF hit = {} THEN Append(groups, NewBucket(ck, r)) ELSE groups
      j == IF hit = {} THEN Len(gs) ELSE CHOOSE i \in hit : TRUE
      g == gs[j]
      g2 == [g EXCEPT
               !.SumOfHours = FloatAdd(@, numberish(Get(cols, r, "Sum of Hours.", IntV(0)))),
               !.Type = AddText(@, Get(cols, r, "Type", StrV(<< >>))),
               !.Description = AddText(@, Get(cols, r, "Description", StrV(<< >>))),
               !.Problem = AddText(@, Get(cols, r, "Problem", StrV(<< >>)))]
  IN [gs EXCEPT ![j] = g2]

RECURSIVE GroupRows(_, _, _, _)
GroupRows(cmap, cols, groups, rs) ==
  IF rs = << >> THEN groups
  ELSE GroupRows(cmap, cols, GroupStep(cmap, cols, groups, Head(rs)), Tail(rs))

\* sorted(set of strings)
RECURSIVE SortedStrings(_)
SortedStrings(set) ==
  IF set = {} THEN << >>
  ELSE LET lo == CHOOSE x \in set : \A y \in set \ {x} : StrLess(x, y)
       IN << lo >> \o SortedStrings(set \ {lo})

\* sep.join(seq)
RECURSIVE Join(_, _)
Join(sep, seq) ==
  IF seq = << >> THEN << >>
  ELSE IF Len(seq) = 1 THEN seq[1]
  ELSE seq[1] \o sep \o Join(sep, Tail(seq))

JoinSorted(set) == Join(<< ";", " " >>, SortedStrings(set))

\* the row dictionary of a bucket (lines 106-113)
RowOf(g) ==
  ( "Name" :> g.Name @@ "Work Order #" :> g.OrderNumber
 @@ "Sum of Hours" :> PyRound(g.SumOfHours, 2)
 @@ "Type" :> StrV(JoinSorted(g.Type))
 @@ "Description" :> StrV(JoinSorted(g.Description))
 @@ "Problem" :> StrV(JoinSorted(g.Problem)) )

\* crafts.setdefault(v["Craft"], []).append(row): a dict in insertion order
RECURSIVE Partition(_, _)
Partition(groups, acc) ==
  IF groups = << >> THEN acc
  ELSE LET g == Head(groups)
           hit == {i \in 1..Len(acc) : acc[i].craft = g.Craft}
           acc1 == IF hit = {} THEN Append(acc, [craft |-> g.Craft, rows |-> << >>]) ELSE acc
           j == IF hit = {} THEN Len(acc1) ELSE CHOOSE i \in hit : TRUE
       IN Partition(Tail(groups), [acc1 EXCEPT ![j].rows = Append(@, RowOf(g))])

\* wo_key(x): float(s) when s.isdigit(), else float("inf"); Raise where float(s)
\* rejects a string that s.isdigit() accepts
wo_key(x) ==
  IF StrIsDigit(PyStr(x["Work Order #"])) THEN PyFloat(PyStr(x["Work Order #"]))
  ELSE Inf(FALSE)

\* a < b on two keys
KeyLess(a, b) == FloatLess(a, b)

\* list.sort(key=wo_key): stable, so a row goes after the rows not greater than it
RECURSIVE InsertRow(_, _)
InsertRow(sorted, x) ==
  IF sorted = << >> THEN << x >>
  ELSE IF KeyLess(wo_key(x), wo_key(sorted[Len(sorted)]))
       THEN Append(InsertRow(SubSeq(sorted, 1, Len(sorted) - 1), x), sorted[Len(sorted)])
       ELSE Append(sorted, x)

RECURSIVE SortRows(_)
SortRows(rows) ==
  IF rows = << >> THEN << >>
  ELSE InsertRow(SortRows(SubSeq(rows, 1, Len(rows) - 1)), rows[Len(rows)])

\* the result of a call that raised
Raised == [ok |-> FALSE, sections |-> << >>]
Returned(sections) == [ok |-> TRUE, sections |-> sections]

\* line 77: df["Production Date"].apply(normalize_excel_date); a frame without
\* the column raises KeyError
ProdCol(cols, rows, clk) ==
  [i \in 1..Len(rows) |->
     IF "Production Date" \in cols
     THEN normalize_excel_date(rows[i]["Production Date"], clk) ELSE Raise]

\* line 78: df[df["__ProdDate"] == selected_date], the rows from i on
RECURSIVE KeptFrom(_, _, _, _)
KeptFrom(rows, prod, sel, i) ==
  IF i > Len(rows) THEN << >>
  ELSE (IF prod[i] = StrV(sel) THEN << rows[i] >> ELSE << >>)
       \o KeptFrom(rows, prod, sel, i + 1)

\* lines 115-120: every section sorted; a key that raises ends the call
SortSections(parts) ==
  IF \E p \in 1..Len(parts) : \E q \in 1..Len(parts[p].rows) :
       wo_key(parts[p].rows[q]) = Raise
  THEN Raised
  ELSE Returned([p \in 1..Len(parts) |->
                   [craft |-> parts[p].craft, rows |-> SortRows(parts[p].rows)]])

\* line 96: numberish raises on some row, which ends the call
HoursRaise(cols, keptRows) ==
  \E i \in 1..Len(keptRows) :
    numberish(Get(cols, keptRows[i], "Sum of Hours.", IntV(0))) = Raise

\* lines 79-120 on the rows of the date; r["Name"] and r["OrderNumber"] raise
\* KeyError in the loop when the frame lacks the column
AggregateKept(cmap, cols, keptRows) ==
  IF "Craft" \notin cols THEN Raised
  ELSE IF keptRows # << >> /\ ({"Name", "OrderNumber"} \ cols # {}) THEN Raised
  ELSE IF HoursRaise(cols, keptRows) THEN Raised
  ELSE SortSections(Partition(GroupRows(cmap, cols, << >>, keptRows), << >>))

AggregateDated(cmap, cols, rows, prod, sel) ==
  IF "Production Date" \notin cols \/ \E i \in 1..Len(rows) : prod[i] = Raise
  THEN Raised
  ELSE AggregateKept(cmap, cols, KeptFrom(rows, prod, sel, 1))

\* build_report(df, selected_date) with CRAFT_MAP = cmap, run under the clock
build_report(cmap, frame, sel, clk) ==
  AggregateDated(cmap, frame.cols, frame.rows, ProdCol(frame.cols, frame.rows, clk), sel)

\* ------------------------------------------------------------------ make_pdf
\* Line 152 as written: both braces of the f-string are doubled, so the cell is
\* this text, whatever the row holds.
HoursCell(r) ==
  << "{", "r", ".", "g", "e", "t", "(", "quote", "S", "u", "m", " ", "o", "f", " ", "H", "o", "u", "r", "s", "quote", ",", "0", ")", ":", ".", "2", "f", "}" >>

\* the cells of one table row (lines 149-156)
PdfRow(r) ==
  << PyStr(r["Name"]), PyStr(r["Work Order #"]), HoursCell(r),
     PyStr(r["Type"]), PyStr(r["Description"]), PyStr(r["Problem"]) >>

PdfHeader == << "Name", "Work Order #", "Sum of Hours", "Type", "Description", "Problem" >>

NoPdf == [made |-> FALSE, title |-> << >>, subtitle |-> << >>, tables |-> << >>]

\* line 128: f"Daily Report \u2014 {selected_date}"
PdfTitle(sel) == << "D", "a", "i", "l", "y", " ", "R", "e", "p", "o", "r", "t", " " >> \o << EmDash, " " >> \o sel

\* line 129
PdfSubtitle == << "S", "o", "r", "t", "e", "d", " ", "b", "y", " ", "W", "o", "r", "k", " ", "O", "r", "d", "e", "r", " ", "#", " ", "w", "i", "t", "h", "i", "n", " ", "e", "a", "c", "h", " ", "c", "r", "a", "f", "t" >>

\* make_pdf(selected_date, crafts): the story handed to doc.build, which is the
\* title, the subtitle and, per craft section in the dictionary's order, the
\* heading and the data rows under the header row; how reportlab lays the
\* story out on pages is not modelled
make_pdf(sel, sections) ==
  [ made |-> TRUE, title |-> PdfTitle(sel), subtitle |-> PdfSubtitle,
    tables |-> [p \in 1..Len(sections) |->
                  [ heading |-> sections[p].craft, header |-> PdfHeader,
                    data |-> [q \in 1..Len(sections[p].rows) |->
                                PdfRow(sections[p].rows[q])] ]] ]

\* ------------------------------------------------------------------- inputs
Chars(n) == NatToChars(n)

\* A row of the sheet: the eight columns the code reads.
Row(date, craft, name, order, hours, type, desc, prob) ==
  ( "Production Date" :> date @@ "Craft" :> craft @@ "Name" :> name
 @@ "OrderNumber" :> order @@ "Sum of Hours." :> hours @@ "Type" :> type
 @@ "Description" :> desc @@ "Problem" :> prob )

\* A workbook: whether pd.read_excel can read it, the header texts of its third
\* row after line 189 has trimmed them, and its data rows.
Workbook(cols, rows) == [kind |-> "xlsx", readable |-> TRUE, cols |-> cols, rows |-> rows]
Unreadable == [kind |-> "xlsx", readable |-> FALSE, cols |-> {}, rows |-> << >>]

SeqsUpTo(S, n) == UNION {[1..k -> S] : k \in 0..n}

\* the day count of 03/15/2023 from 1899-12-30 (45000)
Day == DaysFromCivil([year |-> 2023, month |-> 3, day |-> 15]) - ExcelOrigin
Target == Strftime([year |-> 2023, month |-> 3, day |-> 15])
NextDayText == Strftime([year |-> 2023, month |-> 3, day |-> 16])

A == StrV(<< "A" >>)
B == StrV(<< "B" >>)
Alloy == StrV(Chars(1145480))
Repair == StrV(<< "R", "e", "p", "a", "i", "r" >>)
repairSp == StrV(<< "r", "e", "p", "a", "i", "r", " " >>)
Empty == StrV(<< >>)
Hours35h == StrV(<< "3", ".", "5", "h" >>)

\* ------------------------------------------------------------------- script
NotBuilt == [st |-> "none", sections |-> << >>]

Missing(cols) == {c \in ExpectedColSet : c \notin cols}

\* the module has been imported: nothing uploaded, nothing built
Fresh ==
  /\ uploaded = NoFile /\ df = NoDf /\ dates = << >>
  /\ shown = {} /\ selected_date = << >> /\ crafts = NotBuilt /\ calls = 0
  /\ pdf = NoPdf /\ craft_map = CRAFT_MAP /\ ret = NoneV

\* the clocks a run is checked under: one in which a two-digit year pivots at
\* 76 (a process started in 2026) and one in which it pivots at 69 (a process
\* started in 2019 and still running on new year's day)
Clocks == {Clock(2026, 10, 31, 2026), Clock(2020, 1, 1, 2019)}

Init == pc = "upload" /\ arg = NoneV /\ clock \in Clocks /\ Fresh

\* line 182: the user has uploaded nothing, or one of Files
Upload(Files) ==
  /\ pc = "upload"
  /\ \E f \in Files \cup {NoFile} : uploaded' = f
  /\ pc' = "load"
  /\ UNCHANGED << df, dates, shown, selected_date, crafts, calls, pdf, craft_map, arg, ret, clock >>

\* line 194: sorted({d for d in column.apply(normalize_excel_date).dropna()});
\* an exception leaves dates empty and is shown (lines 195-196)
DatesOf(prod) ==
  IF \E i \in DOMAIN prod : prod[i] = Raise THEN << >>
  ELSE SortedStrings({prod[i].s : i \in {j \in DOMAIN prod : prod[j] # NoneV}})

LoadShown(file, prod) ==
  IF ~file.readable THEN {"exception"}
  ELSE IF Missing(file.cols) # {} THEN {"missing columns"}
  ELSE IF \E i \in DOMAIN prod : prod[i] = Raise THEN {"exception"}
  ELSE {}

\* lines 184-196: read the workbook, check the columns, collect the dates
Load ==
  /\ pc = "load"
  /\ IF uploaded = NoFile
       THEN df' = NoDf /\ dates' = << >> /\ shown' = shown
     ELSE /\ df' = IF uploaded.readable THEN Frame(uploaded.cols, uploaded.rows) ELSE NoDf
          /\ dates' = IF uploaded.readable /\ Missing(uploaded.cols) = {}
                      THEN DatesOf(ProdCol(uploaded.cols, uploaded.rows, clock)) ELSE << >>
          /\ shown' = shown \cup LoadShown(uploaded, ProdCol(uploaded.cols, uploaded.rows, clock))
  /\ pc' = "input"
  /\ UNCHANGED << uploaded, selected_date, crafts, calls, pdf, craft_map, arg, ret, clock >>

\* line 198: the text input holds its default, the last date, or what was typed
TextInput(Typed) ==
  /\ pc = "input"
  /\ \E t \in Typed \cup {IF dates # << >> THEN dates[Len(dates)] ELSE << >>} :
       selected_date' = t
  /\ pc' = "build"
  /\ UNCHANGED << uploaded, df, dates, shown, crafts, calls, pdf, craft_map, arg, ret, clock >>

\* the value the script holds after the call
Outcome(res) == [st |-> IF res.ok THEN "ok" ELSE "raised", sections |-> res.sections]

\* lines 200-201: build_report runs when there is a frame and a date; an
\* exception ends the run and Streamlit shows it
BuildReport ==
  /\ pc = "build" /\ ~df.none /\ selected_date # << >>
  /\ crafts' = Outcome(build_report(craft_map, df, selected_date, clock))
  /\ pc' = IF crafts'.st = "ok" THEN "pdf" ELSE "done"
  /\ shown' = IF crafts'.st = "ok" THEN shown ELSE shown \cup {"exception"}
  /\ calls' = calls + 1
  /\ UNCHANGED << uploaded, df, dates, selected_date, pdf, craft_map, arg, ret, clock >>

\* line 200 is false: nothing is built
NoReport ==
  /\ pc = "build" /\ (df.none \/ selected_date = << >>)
  /\ pc' = "done"
  /\ UNCHANGED << uploaded, df, dates, shown, selected_date, crafts, calls, pdf,
                  craft_map, arg, ret, clock >>

\* lines 203-207: the sections are displayed and the document is rendered
MakePdf ==
  /\ pc = "pdf"
  /\ pdf' = make_pdf(selected_date, crafts.sections)
  /\ pc' = "done"
  /\ UNCHANGED << uploaded, df, dates, shown, selected_date, crafts, calls, craft_map,
                  arg, ret, clock >>

\* a direct call numberish(arg)
CallNumberish ==
  /\ pc = "numberish"
  /\ ret' = numberish(arg)
  /\ pc' = "returned"
  /\ UNCHANGED << uploaded, df, dates, shown, selected_date, crafts, calls, pdf,
                  craft_map, arg, clock >>

\* a direct call normalize_excel_date(arg)
CallNormalize ==
  /\ pc = "normalize"
  /\ ret' = normalize_excel_date(arg, clock)
  /\ pc' = "returned"
  /\ UNCHANGED << uploaded, df, dates, shown, selected_date, crafts, calls, pdf,
                  craft_map, arg, clock >>

\* The script with the workbooks Files on offer and Typed the texts a user types.
Script(Files, Typed) ==
  Upload(Files) \/ Load \/ TextInput(Typed) \/ BuildReport \/ NoReport \/ MakePdf


\* ------------------------------------------------- the script on any workbook
Order10 == StrV(Chars(10))

\* an int no float holds: 10^400
HugeInt == BigIntV(FALSE, BigPow10(400))

FlowRows ==
  { Row(IntV(Day), Alloy, A, Order10, IntV(2), Repair, Empty, Empty),
    Row(IntV(Day + 1), StrV(Chars(999)), B, IntV(7), Hours35h, Empty, Repair, Empty),
    Row(IntV(Day), Alloy, B, Order10, HugeInt, Repair, Empty, Empty),
    Row(NaT, Alloy, A, Order10, IntV(2), Repair, Empty, Empty) }

\* the header lacks at most MaxMissing of the expected columns
FlowHeaders ==
  {ExpectedColSet \ m : m \in {x \in SUBSET ExpectedColSet : Cardinality(x) <= MaxMissing}}

FlowFiles ==
  {Workbook(h, rs) : h \in FlowHeaders, rs \in SeqsUpTo(FlowRows, MaxRows)} \cup {Unreadable}

FlowTyped == {Target}

Next == Script(FlowFiles, FlowTyped)

Spec == Init /\ [][Next]_vars

\* C1: when the uploaded workbook lacks a required column, the missing-column
\* error is reported and build_report is never invoked on it, whatever the date
\* input holds.
C1_NoBuildAfterSchemaError ==
  (uploaded # NoFile /\ uploaded.readable /\ Missing(uploaded.cols) # {}
     /\ pc \in {"input", "build", "pdf", "done"})
    => ("missing columns" \in shown /\ calls = 0)

\* ------------------------------------------------------ numberish, called alone
NumAlphabet == {"1", "5", ".", "-", "h", " ", Sup2}

NumTexts ==
  {StrV(t) : t \in SeqsUpTo(NumAlphabet, MaxStrLen)}
    \cup {StrV(<< "0", ".", "1", "2", "5", "9" >>), StrV(<< "0", ".", "1", "2", "3", "4" >>), StrV(<< "2", ".", "6", "7", "5" >>), StrV(<< "3", ".", "5", "h" >>)}

NumInputs ==
  NumTexts
    \cup {IntV(2), IntV(-7), FloatLit(125, 3), FloatLit(2675, 3), Inf(FALSE), NaN(0),
          BoolV(TRUE), BoolV(FALSE), HugeInt, NoneV, NaT, DateV(2023, 3, 15)}

InitNum == pc = "numberish" /\ arg \in NumInputs /\ clock \in Clocks /\ Fresh

NextNum == CallNumberish

SpecNum == InitNum /\ [][NextNum]_vars

HasDigit(t) == \E i \in 1..Len(t) : IsDigitChar(t[i])

\* A decimal float literal: an optional '-', then ASCII digits with at most one
\* '.' among them and at least one digit.
IsFloatLiteral(t) ==
  \E sign \in {<< >>, << "-" >>} : \E k \in 0..Len(t) : \E frac \in {0, 1} :
    /\ Len(t) - Len(sign) - k - frac >= 0
    /\ SubSeq(t, 1, Len(sign)) = sign
    /\ \A i \in (Len(sign) + 1)..(Len(sign) + k) : t[i] \in DecimalChars
    /\ frac = 1 => t[Len(sign) + k + 1] = "."
    /\ \A i \in (Len(sign) + k + frac + 1)..Len(t) : t[i] \in DecimalChars
    /\ frac = 0 => Len(sign) + k = Len(t)
    /\ k + (Len(t) - Len(sign) - k - frac) > 0

\* what numberish returns when it returns
NumberishCases ==
  /\ (arg.t = "str" /\ ~HasDigit(arg.s)) => ret = Zero
  /\ (arg.t = "str" /\ ~IsFloatLiteral(KeepNumeric(arg.s))) => ret = Zero
  /\ ~(IsInt(arg) \/ IsFloat(arg) \/ arg.t = "str") => ret = Zero

\* C7: numberish never raises; a string without a digit gives exactly 0.0, a
\* string whose kept characters (digits, '.', '-') are not a float literal gives
\* 0.0, and a value that is neither a number nor a string gives 0.0.
C7_NumberishTotal ==
  pc = "returned" => (IsFloat(ret) /\ NumberishCases)

\* the same of every argument but an int that no float holds
C7_ExceptHugeInt ==
  (pc = "returned" /\ arg # HugeInt) => (IsFloat(ret) /\ NumberishCases)

\* what the literals of the pool give: the nearest double, not a cut decimal
C7_Literals ==
  pc = "returned" =>
    /\ arg = StrV(<< "0", ".", "1", "2", "5", "9" >>) => ret = FloatLit(1259, 4)
    /\ arg = StrV(<< "3", ".", "5", "h" >>) => ret = FloatLit(35, 1)
    /\ arg = StrV(<< "5", "-", "1" >>) => ret = Zero
    /\ arg = BoolV(TRUE) => ret = FloatLit(1, 0)
    /\ arg = HugeInt => ret = Raise

\* ------------------------------------------- normalize_excel_date, called alone
MilliPerDay == 86400000

DaySpan == 400

DayCounts ==
  (Day..(Day + DaySpan))
    \cup {-81183, -81182, -1, 0, 1, 59, 60, 61, 132320, 132321, 200000,
          MilliPerDay - 1, MilliPerDay, 1000000000, -100000}

\* texts and what normalize_excel_date gives for them under every clock
TextCases ==
  { << << "2", "0", "2", "3", "-", "0", "3", "-", "1", "5", " ", "0", "0", ":", "0", "0", ":", "0", "0" >>,
       StrV(<< "0", "3", "/", "1", "5", "/", "2", "0", "2", "3" >>) >>,
    << << "2", "0", "2", "3", "-", "0", "3", "-", "1", "5", "T", "1", "0", ":", "3", "0", ":", "0", "0" >>,
       StrV(<< "0", "3", "/", "1", "5", "/", "2", "0", "2", "3" >>) >>,
    << << "1", "5", "-", "M", "a", "r", "-", "2", "0", "2", "3" >>,
       StrV(<< "0", "3", "/", "1", "5", "/", "2", "0", "2", "3" >>) >>,
    << << "3", "/", "1", "5", "/", "2", "3" >>,
       StrV(<< "0", "3", "/", "1", "5", "/", "2", "0", "2", "3" >>) >>,
    << << "0", "3", " ", "1", "5", " ", "2", "0", "2", "3" >>,
       StrV(<< "0", "3", "/", "1", "5", "/", "2", "0", "2", "3" >>) >>,
    << << " ", "0", "3", "/", "1", "5", "/", "2", "0", "2", "3" >>,
       StrV(<< "0", "3", "/", "1", "5", "/", "2", "0", "2", "3" >>) >>,
    << << "0", "3", "/", "1", "5", "/", "2", "0", "2", "3", " " >>,
       StrV(<< "0", "3", "/", "1", "5", "/", "2", "0", "2", "3" >>) >>,
    << << "2", "0", "2", "3", " ", "M", "a", "r", " ", "1", "5" >>,
       StrV(<< "0", "3", "/", "1", "5", "/", "2", "0", "2", "3" >>) >>,
    << << "M", "a", "r", " ", "2", "0", "2", "3", " ", "1", "5" >>,
       StrV(<< "0", "3", "/", "1", "5", "/", "2", "0", "2", "3" >>) >>,
    << << "M", "a", "r", " ", "1", "5", " ", "2", "3" >>,
       StrV(<< "0", "3", "/", "1", "5", "/", "2", "0", "2", "3" >>) >>,
    << << "1", "5", ",", " ", "M", "a", "r", " ", "2", "0", "2", "3" >>,
       StrV(<< "0", "3", "/", "1", "5", "/", "2", "0", "2", "3" >>) >>,
    << << "0", "3", "/", "1", "5", "-", "2", "0", "2", "3" >>,
       StrV(<< "0", "3", "/", "1", "5", "/", "2", "0", "2", "3" >>) >>,
    << << "2", "0", "2", "3", " ", "0", "3", " ", "1", "5" >>,
       StrV(<< "0", "3", "/", "1", "5", "/", "2", "0", "2", "3" >>) >>,
    << << "2", "0", "2", "3", "-", "0", "3", "-", "1", "5" >>,
       StrV(<< "0", "3", "/", "1", "5", "/", "2", "0", "2", "3" >>) >>,
    << << "3", "/", "1", "5", "/", "2", "0", "2", "3" >>,
       StrV(<< "0", "3", "/", "1", "5", "/", "2", "0", "2", "3" >>) >>,
    << << "2", "0", "2", "3", "/", "0", "3", "/", "1", "5" >>,
       StrV(<< "0", "3", "/", "1", "5", "/", "2", "0", "2", "3" >>) >>,
    << << "2", "0", "2", "3", "0", "3", "1", "5" >>,
       StrV(<< "0", "3", "/", "1", "5", "/", "2", "0", "2", "3" >>) >>,
    << << "M", "a", "r", " ", "1", "5", " ", "2", "0", "2", "3" >>,
       StrV(<< "0", "3", "/", "1", "5", "/", "2", "0", "2", "3" >>) >>,
    << << "M", "a", "r", "c", "h", " ", "1", "5", ",", " ", "2", "0", "2", "3" >>,
       StrV(<< "0", "3", "/", "1", "5", "/", "2", "0", "2", "3" >>) >>,
    << << "1", "5", " ", "m", "a", "r", " ", "2", "0", "2", "3" >>,
       StrV(<< "0", "3", "/", "1", "5", "/", "2", "0", "2", "3" >>) >>,
    << << "0", "3", "/", "1", "5", "/", "2", "0", "2", "3" >>,
       StrV(<< "0", "3", "/", "1", "5", "/", "2", "0", "2", "3" >>) >>,
    << << "W", "e", "d", ",", " ", "1", "5", " ", "M", "a", "r", " ", "2", "0", "2", "3", " ", "1", "0", ":", "3", "0", ":", "0", "0", " ", "G", "M", "T" >>,
       StrV(<< "0", "3", "/", "1", "5", "/", "2", "0", "2", "3" >>) >>,
    << << "2", "0", "2", "3", "-", "0", "3", "-", "1", "5", " ", "1", "0", ":", "3", "0", ":", "1", "5", ".", "2", "5", "0", "+", "0", "5", ":", "3", "0" >>,
       StrV(<< "0", "3", "/", "1", "5", "/", "2", "0", "2", "3" >>) >>,
    << << "M", "a", "r", "c", "h", " ", "1", "5", "t", "h", ",", " ", "2", "0", "2", "3" >>,
       StrV(<< "0", "3", "/", "1", "5", "/", "2", "0", "2", "3" >>) >>,
    << << "3", "/", "1", "5", "/", "2", "0", "2", "3", " ", "2", ":", "3", "0", " ", "P", "M" >>,
       StrV(<< "0", "3", "/", "1", "5", "/", "2", "0", "2", "3" >>) >>,
    << << "1", "3", "/", "0", "1", "/", "2", "0", "2", "3" >>,
       StrV(<< "0", "1", "/", "1", "3", "/", "2", "0", "2", "3" >>) >>,
    << << "2", "0", "2", "3" >>,
       StrV(<< "0", "1", "/", "0", "1", "/", "2", "0", "2", "3" >>) >>,
    << << "S", "e", "p", "t", " ", "1", "5", " ", "2", "0", "2", "3" >>,
       StrV(<< "0", "9", "/", "1", "5", "/", "2", "0", "2", "3" >>) >>,
    << << "1", "5", " ", "S", "e", "p", "t", " ", "2", "0", "2", "3" >>,
       StrV(<< "0", "9", "/", "1", "5", "/", "2", "0", "2", "3" >>) >>,
    << << "M", "a", "r", " ", "2", "0", "2", "3" >>,
       StrV(<< "0", "3", "/", "0", "1", "/", "2", "0", "2", "3" >>) >>,
    << << "0", "3", "/", "2", "0", "2", "3" >>,
       StrV(<< "0", "3", "/", "0", "1", "/", "2", "0", "2", "3" >>) >>,
    << << "2", "0", "2", "3", "-", "0", "3" >>,
       StrV(<< "0", "3", "/", "0", "1", "/", "2", "0", "2", "3" >>) >>,
    << << "1", "/", "2", "/", "9", "9" >>,
       StrV(<< "0", "1", "/", "0", "2", "/", "1", "9", "9", "9" >>) >>,
    << << "0", "2", "/", "3", "0", "/", "2", "0", "2", "3" >>,
       NoneV >>,
    << << "2", "0", "2", "3", "-", "1", "5", "-", "0", "3" >>,
       NoneV >>,
    << << "1", "3", "/", "1", "3", "/", "2", "0", "2", "3" >>,
       NoneV >>,
    << << "a", "b", "c" >>,
       NoneV >>,
    << << "4", "5", "0", "0", "0" >>,
       NoneV >>,
    << << "1", "5", " ", "F", "o", "o", " ", "2", "0", "2", "3" >>,
       NoneV >>,
    << << "2", "0", "2", "3", "-", "0", "3", "-", "1", "5", " ", "2", "5", ":", "0", "0" >>,
       NoneV >>,
    << << "1", "/", "2", "/", "3", "/", "4" >>,
       NoneV >>,
    << << "0", "3", "/", "1", "5", "/", "1", "5", "0", "0" >>,
       NoneV >>,
    << << "sup2" >>,
       NoneV >>,
    << << "1", "6", "7", "7", "-", "0", "9", "-", "2", "1", " ", "1", "2", ":", "0", "0", ":", "0", "0" >>,
       StrV(<< "0", "9", "/", "2", "1", "/", "1", "6", "7", "7" >>) >>,
    << << "2", "2", "6", "2", "-", "0", "4", "-", "1", "1", " ", "2", "3", ":", "5", "0", ":", "0", "0" >>,
       NoneV >>,
    << << "1", "6", "7", "7", "-", "0", "9", "-", "2", "1", " ", "0", "0", ":", "1", "2", ":", "4", "3" >>,
       NoneV >>,
    << << "2", "2", "6", "2", "-", "0", "4", "-", "1", "1", " ", "2", "3", ":", "4", "7", ":", "1", "6" >>,
       StrV(<< "0", "4", "/", "1", "1", "/", "2", "2", "6", "2" >>) >>,
    << << "2", "0", "2", "3", "0", "3", "1", "5", "-" >>,
       StrV(<< "0", "3", "/", "1", "5", "/", "2", "0", "2", "3" >>) >>,
    << << "2", "0", "2", "3", "0", "3", "1", "5", " ", "Z" >>,
       NoneV >>,
    << << "2", "0", "2", "3", "0", "3", "1", "5", " ", "p", "m" >>,
       NoneV >>,
    << << "2", "0", "2", "3", "0", "3", "1", "5", " ", "+", "0", "5" >>,
       NoneV >>,
    << << "3", "/", "1", "5", "/", "2", "0", "2", "3", " ", "1", "0", "h", " ", "3", "0" >>,
       StrV(<< "0", "3", "/", "1", "5", "/", "2", "0", "2", "3" >>) >>,
    << << "m", " ", "2", "0", "2", "3" >>,
       NoneV >>,
    << << "1", "9", "9", "9", ",", "1", "2", "0", "3" >>,
       StrV(<< "0", "1", "/", "0", "1", "/", "1", "9", "9", "9" >>) >>,
    << << "3", "/", "1", "5", "/", "2", "0", "2", "3", " ", "1", ".", "5", "h" >>,
       StrV(<< "0", "3", "/", "1", "5", "/", "2", "0", "2", "3" >>) >>,
    << << "2", "0", "2", "3", "-", "0", "3", "-", "1", "5", " ", "1", "0", ".", "5", ":", "3", "0" >>,
       StrV(<< "0", "3", "/", "1", "5", "/", "2", "0", "2", "3" >>) >>,
    << << "M", "a", "r", "3", "2", ",", "1" >>,
       StrV(<< "0", "3", "/", "0", "1", "/", "2", "0", "3", "2" >>) >>,
    << << "2", "0", "2", "3", "-", "0", "3", "-", "1", "5", " ", "1", "0", ":", "3", "0", ":", "1", "5", ",", "2", "5", "0" >>,
       StrV(<< "0", "3", "/", "1", "5", "/", "2", "0", "2", "3" >>) >>,
    << << "3", "/", "1", "5", "/", "2", "0", "2", "3", " ", "3", "0", "m", " ", "E", "S", "T" >>,
       NoneV >>,
    << << "3", "/", "1", "5", "/", "2", "0", "2", "3", " ", "3", "0", "m", "-" >>,
       StrV(<< "0", "3", "/", "1", "5", "/", "2", "0", "2", "3" >>) >>,
    << << "3", "/", "1", "5", "/", "2", "0", "2", "3", " ", "5", "s", "5", "9" >>,
       NoneV >>,
    << << "5", "s", "9", "9", " ", "3", "/", "1", "5", "/", "2", "0", "2", "3" >>,
       StrV(<< "0", "3", "/", "1", "5", "/", "2", "0", "2", "3" >>) >>,
    << << "2", "0", "2", "3", "-", "0", "3", "-", "1", "5", " ", "3", "0", " ", "1", "0", ":", "3", "0" >>,
       StrV(<< "0", "3", "/", "1", "5", "/", "2", "0", "2", "3" >>) >>,
    << << "M", "a", "r", " ", "0", "0", "0", "0", "0", "0", "5", " ", "2", "0", "2", "3" >>,
       StrV(<< "0", "3", "/", "0", "5", "/", "2", "0", "2", "3" >>) >>,
    << << "0", "0", "0", "0", "0", "0", "2", "0", "2", "3" >>,
       StrV(<< "0", "1", "/", "0", "1", "/", "2", "0", "2", "3" >>) >>,
    << << "M", "a", "r", "-", "1", "5", ".", "5" >>,
       NoneV >>,
    << << "2", "0", "2", "3", " ", "M", "a", "r", " ", "o", "f", " ", "sup2" >>,
       NoneV >>,
    << << "3", "/", "1", "5", ".", "5" >>,
       NoneV >>,
    << << "3", "/", "1", "5", "/", "2", "0", "2", "3", " ", "1", "0", ":", "3", "0", " ", "-", "0", "3", "0", "0", " ", "(", "B", "R", "S", "T", ")" >>,
       StrV(<< "0", "3", "/", "1", "5", "/", "2", "0", "2", "3" >>) >>,
    << << "1", "/", "1", "/", "7", "6" >>,
       StrV(<< "0", "1", "/", "0", "1", "/", "1", "9", "7", "6" >>) >>,
    << << "1", "/", "1", "/", "6", "8" >>,
       StrV(<< "0", "1", "/", "0", "1", "/", "2", "0", "6", "8" >>) >>,
    << << "2", "0", "2", "3", "Q", "1" >>,
       StrV(<< "0", "1", "/", "0", "1", "/", "2", "0", "2", "3" >>) >>,
    << << "1", "e", "+", "3", "0", "0" >>,
       NoneV >>,
    << << "i", "n", "f" >>,
       NoneV >>,
    << << "T", "r", "u", "e" >>,
       NoneV >>,
    << << "n", "a", "n" >>,
       NoneV >>,
    << << "N", "o", "n", "e" >>,
       NoneV >>,
    << << "N", "a", "T" >>,
       NoneV >>,
    << << "3", ".", "5", "h" >>,
       NoneV >> }

\* texts read against the clock: "now", "today" and a time of day without a
\* date give today's date
TodayTexts ==
  { << "n", "o", "w" >>,
    << "t", "o", "d", "a", "y" >>,
    << "1", "0", ":", "3", "0" >>,
    << "1", ":", "3", "0" >>,
    << "9", ":", "0", "5", " ", "p", "m" >> }

\* texts with a two-digit year, the year the process started in, and the
\* result: the year is completed to the century of the start and falls back a
\* century when that is 50 years or more ahead
PivotCases ==
  { << << "1", "/", "1", "/", "6", "9" >>, 2026,
       StrV(<< "0", "1", "/", "0", "1", "/", "2", "0", "6", "9" >>) >>,
    << << "1", "/", "1", "/", "6", "9" >>, 2019,
       StrV(<< "0", "1", "/", "0", "1", "/", "1", "9", "6", "9" >>) >>,
    << << "1", "/", "1", "/", "7", "5" >>, 2026,
       StrV(<< "0", "1", "/", "0", "1", "/", "2", "0", "7", "5" >>) >>,
    << << "1", "/", "1", "/", "7", "5" >>, 2019,
       StrV(<< "0", "1", "/", "0", "1", "/", "1", "9", "7", "5" >>) >>,
    << << "M", "a", "r", " ", "1", "5", " ", "7", "0" >>, 2026,
       StrV(<< "0", "3", "/", "1", "5", "/", "2", "0", "7", "0" >>) >>,
    << << "M", "a", "r", " ", "1", "5", " ", "7", "0" >>, 2019,
       StrV(<< "0", "3", "/", "1", "5", "/", "1", "9", "7", "0" >>) >> }

DateInputs ==
  {IntV(n) : n \in DayCounts}
    \cup {FloatLit(Day * 1000 + 500, 3), FloatLit(Day * 1000 + 999, 3), FloatLit(-5, 1),
          FloatLit(132320991, 3), FloatLit(132320992, 3), FloatLit(2023, 0),
          Inf(FALSE), Inf(TRUE), BigIntV(FALSE, BigPow10(300)), FloatOfInt(BigIntV(FALSE, BigPow10(300))),
          HugeInt, BigIntV(TRUE, BigPow10(400)), BoolV(TRUE), BoolV(FALSE)}
    \cup {NoneV, NaN(0), Empty, NaT, DateV(2023, 3, 15), DateV(2024, 2, 29),
          DateV(1999, 12, 31), DateV(1000, 1, 1), DateV(999, 1, 1), DateV(1, 2, 3)}
    \cup {StrV(c[1]) : c \in TextCases}
    \cup {StrV(t) : t \in TodayTexts}
    \cup {StrV(c[1]) : c \in PivotCases}

InitDate == pc = "normalize" /\ arg \in DateInputs /\ clock \in Clocks /\ Fresh

NextDate == CallNormalize

SpecDate == InitDate /\ [][NextDate]_vars

\* s is two digits, "/", two digits, "/", four digits
IsMDY(s) ==
  /\ Len(s) = 10 /\ s[3] = "/" /\ s[6] = "/"
  /\ AllDecimal(SubSeq(s, 1, 2)) /\ AllDecimal(SubSeq(s, 4, 5)) /\ AllDecimal(SubSeq(s, 7, 10))

\* the civil date MM/DD/YYYY text spells
ReadMDY(s) ==
  [year |-> DigitsValue(SubSeq(s, 7, 10)), month |-> DigitsValue(SubSeq(s, 1, 2)),
   day |-> DigitsValue(SubSeq(s, 4, 5))]

\* v is MM/DD/YYYY text that parses back to the day number n (from 1970-01-01)
ParsesBackTo(v, n) ==
  /\ v.t = "str" /\ IsMDY(v.s)
  /\ ReadMDY(v.s).month \in 1..12
  /\ ReadMDY(v.s).day \in 1..DaysInMonth(ReadMDY(v.s).year, ReadMDY(v.s).month)
  /\ DaysFromCivil(ReadMDY(v.s)) = n

\* the absolute value of a number, as a float
Magnitude(v) == [(IF IsInt(v) THEN FloatOfInt(v) ELSE v) EXCEPT !.neg = FALSE]

\* the number of an int, a bool or a float without its fraction, toward zero
Truncated(v) == IF IsInt(v) THEN v.m ELSE Trunc(v)

HasFraction(v) == v.t = "float" /\ v.n < 0

\* floor(v) of a number whose whole part is small
WholeNumber(v) ==
  IF ~v.neg THEN SmallOf(Truncated(v))
  ELSE IF HasFraction(v) THEN 0 - SmallOf(Truncated(v)) - 1
  ELSE 0 - SmallOf(Truncated(v))

\* m \div 86400000
DaysOfMillis(m) == SmallOf(BigDivSmall(BigDivSmall(m, 10000).q, 8640).q)

\* floor(v / 86400000) of a number: the whole days of that many milliseconds
WholeDaysOfMs(v) ==
  IF ~v.neg THEN DaysOfMillis(Truncated(v))
  ELSE IF HasFraction(v) THEN 0 - DaysOfMillis(Truncated(v)) - 1
  ELSE IF Truncated(v) = << >> THEN 0
  ELSE 0 - DaysOfMillis(BigSub(Truncated(v), << 1 >>)) - 1

\* Timestamp.max in days and in milliseconds: (2^63 - 1) nanoseconds
MaxDays == FloatOfDecimal(FALSE, BigOfDigits(<< "1", "0", "6", "7", "5", "1", "9", "9", "1", "1", "6", "7", "3", "0", "0", "6", "4" >>), 11)

MaxMillis == FloatOfDecimal(FALSE, BigOfDigits(<< "9", "2", "2", "3", "3", "7", "2", "0", "3", "6", "8", "5", "4", "7", "7", "5", "8", "0", "7" >>), 6)

Finite(v) == v.t \in {"int", "bool", "float"} /\ FloatOfInt(BigIntV(FALSE, Truncated(v))) # Raise

\* v is a day count pandas can hold as a Timestamp: v days after 1899-12-30
\* lies within Timestamp.max of 1970-01-01
ValidDayCount(v) ==
  /\ Finite(v)
  /\ FloatLess(Magnitude(FloatAdd(IF IsInt(v) THEN FloatOfInt(v) ELSE v, FloatLit(ExcelOrigin, 0))),
               MaxDays)

\* v milliseconds lie within Timestamp.max of 1970-01-01
ValidMillis(v) == Finite(v) /\ v.t # "bool" /\ FloatLess(Magnitude(v), MaxMillis)

\* the cases of normalize_excel_date on a value that is not an instance of
\* datetime or date
NormalizeCases ==
  /\ (arg.t \in {"none", "nan"} \/ arg = Empty) => ret = NoneV
  /\ (IsNumber(arg) /\ ValidDayCount(arg))
       => ParsesBackTo(ret, WholeNumber(arg) + ExcelOrigin)
  /\ (IsNumber(arg) /\ ~ValidDayCount(arg) /\ ValidMillis(arg))
       => ParsesBackTo(ret, WholeDaysOfMs(arg))
  /\ (IsNumber(arg) /\ ~ValidDayCount(arg) /\ ~ValidMillis(arg))
       => ret = FromText(ParseDateText(PyStr(arg), clock))
  /\ arg.t = "str" => \A c \in TextCases : arg.s = c[1] => ret = c[2]
  /\ (arg.t = "str" /\ arg.s \in TodayTexts) => ret = StrV(Strftime(clock))
  /\ arg.t = "str" =>
       \A c \in PivotCases : (arg.s = c[1] /\ clock.started = c[2]) => ret = c[3]
  /\ (arg.t = "str" /\ arg # Empty /\ ret # NoneV)
       => (IsMDY(ret.s) /\ ParsesBackTo(ret, DaysFromCivil(ReadMDY(ret.s))))

\* C6: normalize_excel_date applies its cases in order: None, NaN and "" give
\* None; an instance of datetime or date gives its MM/DD/YYYY form; a number is a
\* day count from 1899-12-30 first and milliseconds since 1970 only when that
\* fails; text is parsed last.  A valid day count gives text that parses back to
\* 1899-12-30 plus that many whole days.
C6_NormalizeCases ==
  pc = "returned" =>
    /\ NormalizeCases
    /\ arg.t = "date" => ParsesBackTo(ret, DaysFromCivil(
         [year |-> arg.n \div 10000, month |-> (arg.n \div 100) % 100, day |-> arg.n % 100]))
    /\ arg.t = "nat" => (ret.t = "str" /\ Len(ret.s) = 10)

\* what holds of every value but pandas.NaT and the dates before the year 1000,
\* whose year strftime writes with fewer than four digits
C6_ExceptNaT ==
  pc = "returned" =>
    /\ NormalizeCases
    /\ (arg.t = "date" /\ arg.n >= 10000000) => ParsesBackTo(ret, DaysFromCivil(
         [year |-> arg.n \div 10000, month |-> (arg.n \div 100) % 100, day |-> arg.n % 100]))
    /\ (arg.t = "date" /\ arg.n < 10000000) => (ret.t = "str" /\ Len(ret.s) < 10)

\* a number neither reading holds has text that is no date
C6_NoReading ==
  (pc = "returned" /\ arg \in {HugeInt, Inf(FALSE), Inf(TRUE), BigIntV(FALSE, BigPow10(300))})
    => ret = NoneV

\* --------------------------------------------------- what a report is checked on
\* the rows of the frame whose production date is the selected date
Matching ==
  {i \in 1..Len(df.rows) :
     normalize_excel_date(df.rows[i]["Production Date"], clock) = StrV(selected_date)}

\* the places <<section, row>> of the report
Cells ==
  UNION {{<< p, q >> : q \in 1..Len(crafts.sections[p].rows)} :
           p \in 1..Len(crafts.sections)}

CellRow(c) == crafts.sections[c[1]].rows[c[2]]

\* the craft description the table gives the text of a Craft value
ExpectedCraft(v) ==
  IF \E k \in DOMAIN CRAFT_MAP : k = Strip(PyStr(v))
  THEN CRAFT_MAP[Strip(PyStr(v))] ELSE UnmappedCraft

\* the (craft description, Name, OrderNumber) of a row of the frame, of a row of
\* the report, and their equality as Python values
RecKey(i) == << ExpectedCraft(df.rows[i]["Craft"]), df.rows[i]["Name"], df.rows[i]["OrderNumber"] >>

CellKey(c) == << crafts.sections[c[1]].craft, CellRow(c)["Name"], CellRow(c)["Work Order #"] >>

SameValue(a, b) ==
  IF IsNumber(a) /\ IsNumber(b) THEN ~FloatLess(a, b) /\ ~FloatLess(b, a) ELSE a = b

SameKey(k1, k2) == k1[1] = k2[1] /\ SameValue(k1[2], k2[2]) /\ SameValue(k1[3], k2[3])

Built == crafts.st # "none"

\* ---------------------------------------------------- grouping and craft lookup
CraftValues ==
  { Alloy, StrV(<< " " >> \o Chars(1145480) \o << " " >>), IntV(1145480),
    FloatLit(1145480, 0), StrV(Chars(1145560)), StrV(Chars(999)), NaN(0) }

GroupNames == {A, B, NaN(0)}

GroupOrders == {Order10, IntV(10), FloatLit(10, 0), StrV(Chars(7)), NaN(1), NaN(2)}

GroupPool ==
  {Row(IntV(Day), c, A, Order10, IntV(2), Repair, Empty, Empty) : c \in CraftValues}
    \cup {Row(IntV(Day), Alloy, n, o, IntV(2), Repair, Empty, Empty) :
            n \in GroupNames, o \in GroupOrders}
    \cup { Row(StrV(Target), Alloy, A, Order10, Hours35h, repairSp, Repair, Empty),
           Row(IntV(Day + 1), Alloy, A, Order10, IntV(2), Repair, Empty, Empty) }

GroupFiles == {Workbook(ExpectedColSet, rs) : rs \in SeqsUpTo(GroupPool, MaxRows)}

NextGroup == Script(GroupFiles, {Target})

SpecGroup == Init /\ [][NextGroup]_vars

C9_CraftResolved ==
  /\ craft_map = CRAFT_MAP
  /\ Built =>
       /\ crafts.st = "ok"
       /\ \A i \in Matching : \E c \in Cells :
            /\ crafts.sections[c[1]].craft = ExpectedCraft(df.rows[i]["Craft"])
            /\ SameValue(CellRow(c)["Name"], df.rows[i]["Name"])
            /\ SameValue(CellRow(c)["Work Order #"], df.rows[i]["OrderNumber"])
       /\ \A c \in Cells : \E i \in Matching :
            crafts.sections[c[1]].craft = ExpectedCraft(df.rows[i]["Craft"])

\* a blank Craft and a padded known code, each in its section
C9_Witness ==
  /\ crafts.st = "ok" /\ Matching = {1, 2}
  /\ df.rows[1]["Craft"] = NaN(0) /\ df.rows[2]["Craft"].s = << " " >> \o Chars(1145480) \o << " " >>
  /\ crafts.sections[1].craft = UnmappedCraft
  /\ crafts.sections[2].craft = "Alloy Mech Days"

\* the rows of the frame that a report row aggregates
GroupOf(c) == {i \in Matching : SameKey(RecKey(i), CellKey(c))}

\* ------------------------------------------------- Type, Description, Problem
TextValues ==
  { Repair, repairSp, StrV(<< " ", "R", "e", "p", "a", "i", "r" >>), Empty,
    StrV(<< " ", " " >>), NaN(0), IntV(5), StrV(<< "P", "M" >>) }

TextPool ==
  {Row(IntV(Day), Alloy, A, Order10, IntV(1), t, Empty, Empty) : t \in TextValues}
    \cup {Row(IntV(Day), Alloy, A, Order10, IntV(1), Repair, t, Empty) : t \in TextValues}
    \cup {Row(IntV(Day), Alloy, A, Order10, IntV(1), Repair, Empty, t) : t \in TextValues}
    \cup {Row(IntV(Day), Alloy, B, Order10, IntV(1), t, t, t) : t \in {Repair, repairSp}}

TextFiles == {Workbook(ExpectedColSet, rs) : rs \in SeqsUpTo(TextPool, MaxRows)}

NextText == Script(TextFiles, {Target})

SpecText == Init /\ [][NextText]_vars

Blanks(n) == [i \in 1..n |-> " "]

\* t is s without its surrounding blanks
IsTrimOf(t, s) ==
  /\ \E a \in 0..Len(s) : \E b \in 0..Len(s) :
       a + b + Len(t) = Len(s) /\ s = Blanks(a) \o t \o Blanks(b)
  /\ t # << >> => (t[1] # " " /\ t[Len(t)] # " ")

\* the distinct trimmed non-empty strings the rows of a report row hold in a field
TextsOf(c, field) ==
  {t \in {Strip(df.rows[i][field].s) : i \in GroupOf(c)} :
     /\ t # << >>
     /\ \E i \in GroupOf(c) : df.rows[i][field].t = "str" /\ IsTrimOf(t, df.rows[i][field].s)}

\* the members of a set of strings in ascending order
Ascending(set) ==
  CHOOSE q \in [1..Cardinality(set) -> set] :
    \A i \in 1..Cardinality(set) : \A j \in 1..Cardinality(set) :
      i < j => StrLess(q[i], q[j])

\* C8: in every report row each of Type, Description and Problem is the "; "-join
\* of the sorted distinct trimmed non-empty strings its rows hold in that field;
\* values that differ only in surrounding blanks are one entry, values that
\* differ in case are two, and empty, blank or non-string values add nothing.
C8_TextFields ==
  Built =>
    /\ crafts.st = "ok"
    /\ \A c \in Cells : \A field \in {"Type", "Description", "Problem"} :
         CellRow(c)[field] = StrV(Join(<< ";", " " >>, Ascending(TextsOf(c, field))))

\* "Repair" and "repair " under one key give "Repair; repair"
C8_Witness ==
  /\ crafts.st = "ok" /\ Cardinality(Cells) = 1 /\ Matching = {1, 2}
  /\ df.rows[1]["Type"] = repairSp /\ df.rows[2]["Type"] = Repair
  /\ CellRow(<< 1, 1 >>)["Type"]
       = StrV(Repair.s \o << ";", " " >> \o << "r", "e", "p", "a", "i", "r" >>)

\* ------------------------------------------------------------- Sum of Hours
HoursValues ==
  { Hours35h, IntV(2), FloatLit(125, 3), FloatLit(375, 3), StrV(<< "a", "b", "c" >>),
    StrV(<< "1", ".", "2", ".", "3" >>), StrV(<< "0", ".", "2", "5" >>),
    StrV(<< "2", ".", "6", "7", "5" >>), StrV(<< "0", ".", "1", "2", "5", "9" >>), FloatLit(1, 1), FloatLit(2, 1), BoolV(TRUE),
    NoneV, NaN(0) }

HoursPool ==
  {Row(IntV(Day), Alloy, n, Order10, h, Repair, Empty, Empty) :
     n \in {A, B}, h \in HoursValues}

HoursFiles == {Workbook(ExpectedColSet, rs) : rs \in SeqsUpTo(HoursPool, MaxRows)}

NextHours == Script(HoursFiles, {Target})

SpecHours == Init /\ [][NextHours]_vars

\* what a row's hours value contributes: the number as a float, the float its
\* kept characters spell, and 0.0 when it is absent or spells none
Contribution(v) ==
  IF IsInt(v) THEN FloatOfInt(v)
  ELSE IF v.t \in {"float", "inf"} THEN v
  ELSE IF v.t = "str" /\ IsFloatLiteral(KeepNumeric(v.s)) THEN PyFloat(KeepNumeric(v.s))
  ELSE Zero

\* the float sum of the contributions of the rows idx, added to acc in the
\* order of the rows
RECURSIVE SumContributions(_, _)
SumContributions(idx, acc) ==
  IF idx = {} THEN acc
  ELSE LET i == CHOOSE j \in idx : \A k \in idx : j <= k
       IN SumContributions(idx \ {i},
                           FloatAdd(acc, Contribution(df.rows[i]["Sum of Hours."])))

\* x >= 0 of a float
NonNegative(x) == x.t \in {"float", "inf"} /\ (~x.neg \/ IsZero(x))

\* C3: Sum of Hours of every report row is the sum, rounded to 2 places, of the
\* coerced hours of its rows, an unparsable or absent value counting 0.0; it is
\* a number >= 0 when no contribution is negative.
C3_SumOfHours ==
  Built =>
    /\ crafts.st = "ok"
    /\ \A c \in Cells :
         /\ CellRow(c)["Sum of Hours"] = PyRound(SumContributions(GroupOf(c), Zero), 2)
         /\ (\A i \in GroupOf(c) : NonNegative(Contribution(df.rows[i]["Sum of Hours."])))
              => NonNegative(CellRow(c)["Sum of Hours"])

\* the same, of the report rows none of whose hours cells is a NaN
C3_ExceptNaN ==
  Built =>
    /\ crafts.st = "ok"
    /\ \A c \in Cells :
         (\A i \in GroupOf(c) : df.rows[i]["Sum of Hours."].t # "nan") =>
           /\ CellRow(c)["Sum of Hours"] = PyRound(SumContributions(GroupOf(c), Zero), 2)
           /\ (\A i \in GroupOf(c) : NonNegative(Contribution(df.rows[i]["Sum of Hours."])))
                => NonNegative(CellRow(c)["Sum of Hours"])

\* round() works on the double: 2.675 is below the tie and gives 2.67, 0.1259
\* gives 0.13, and 0.1 + 0.2 gives 0.3
C3_Doubles ==
  (Built /\ crafts.st = "ok") =>
    \A c \in Cells :
      /\ (\E i \in Matching : GroupOf(c) = {i} /\ df.rows[i]["Sum of Hours."] = StrV(<< "2", ".", "6", "7", "5" >>))
           => CellRow(c)["Sum of Hours"] = FloatLit(267, 2)
      /\ (\E i \in Matching : GroupOf(c) = {i} /\ df.rows[i]["Sum of Hours."] = StrV(<< "0", ".", "1", "2", "5", "9" >>))
           => CellRow(c)["Sum of Hours"] = FloatLit(13, 2)
      /\ (GroupOf(c) = {1, 2} /\ df.rows[1]["Sum of Hours."] = FloatLit(1, 1)
            /\ df.rows[2]["Sum of Hours."] = FloatLit(2, 1))
           => CellRow(c)["Sum of Hours"] = FloatLit(3, 1)

\* -------------------------------------------------------------- the document
\* the digits of a number of hundredths with '.' before the last two
Hundredths(ds) ==
  IF Len(ds) < 3 THEN << "0", "." >> \o (IF Len(ds) < 2 THEN << "0" >> ELSE << >>) \o ds
  ELSE SubSeq(ds, 1, Len(ds) - 2) \o << "." >> \o SubSeq(ds, Len(ds) - 1, Len(ds))

\* f"{x:.2f}" of a float: the decimal of two places nearest to it
Format2f(v) ==
  IF v.t # "float" THEN FloatToChars(v)
  ELSE (IF v.neg THEN << "-" >> ELSE << >>)
       \o Hundredths(BigToChars(IF v.n >= 0 THEN BigMulPow10(BigShl(v.m, v.n), 2)
                                ELSE Nearest(BigMulPow10(v.m, 2), v.n)))

\* C10: in the table make_pdf lays out, the Sum of Hours cell of every row is the
\* row's value with exactly 2 digits after the point, and the rows are the
\* model's rows in the model's order.
C10_PdfHours ==
  pdf.made =>
    /\ Len(pdf.tables) = Len(crafts.sections)
    /\ \A p \in 1..Len(pdf.tables) :
         /\ pdf.tables[p].heading = crafts.sections[p].craft
         /\ Len(pdf.tables[p].data) = Len(crafts.sections[p].rows)
         /\ \A q \in 1..Len(pdf.tables[p].data) :
              /\ pdf.tables[p].data[q][1] = PyStr(crafts.sections[p].rows[q]["Name"])
              /\ pdf.tables[p].data[q][2] = PyStr(crafts.sections[p].rows[q]["Work Order #"])
              /\ pdf.tables[p].data[q][3] = Format2f(crafts.sections[p].rows[q]["Sum of Hours"])

\* the same without the Sum of Hours cell
C10_ExceptHours ==
  pdf.made =>
    /\ Len(pdf.tables) = Len(crafts.sections)
    /\ \A p \in 1..Len(pdf.tables) :
         /\ pdf.tables[p].heading = crafts.sections[p].craft
         /\ Len(pdf.tables[p].data) = Len(crafts.sections[p].rows)
         /\ \A q \in 1..Len(pdf.tables[p].data) :
              /\ pdf.tables[p].data[q][1] = PyStr(crafts.sections[p].rows[q]["Name"])
              /\ pdf.tables[p].data[q][2] = PyStr(crafts.sections[p].rows[q]["Work Order #"])

\* ------------------------------------------------------ the order of the rows
SortOrders ==
  { StrV(Chars(100)), StrV(Chars(20)), StrV(<< "a", "b", "c" >>), StrV(Chars(7)),
    IntV(7), StrV(<< "x" >>), StrV(<< Sup2 >>) }

SortPool ==
  {Row(IntV(Day), Alloy, A, o, IntV(1), Repair, Empty, Empty) : o \in SortOrders}

SortFiles == {Workbook(ExpectedColSet, rs) : rs \in SeqsUpTo(SortPool, MaxSortRows)}

NextSort == Script(SortFiles, {Target})

SpecSort == Init /\ [][NextSort]_vars

\* the first row of the frame a report row aggregates
FirstIdx(c) == CHOOSE i \in GroupOf(c) : \A j \in GroupOf(c) : i <= j

\* whether the text of a Work Order # is made only of the digits 0 to 9, and the
\* number it then spells
DigitsOnly(r) ==
  PyStr(r["Work Order #"]) # << >> /\ AllDecimal(PyStr(r["Work Order #"]))

OrderNumberOf(r) == DigitsValue(PyStr(r["Work Order #"]))

\* row c1 may stand before row c2 of the same section
InOrder(c1, c2) ==
  /\ DigitsOnly(CellRow(c2)) =>
       (DigitsOnly(CellRow(c1)) /\ OrderNumberOf(CellRow(c1)) <= OrderNumberOf(CellRow(c2)))
  /\ ((DigitsOnly(CellRow(c1)) <=> DigitsOnly(CellRow(c2)))
        /\ (DigitsOnly(CellRow(c1)) => OrderNumberOf(CellRow(c1)) = OrderNumberOf(CellRow(c2))))
       => FirstIdx(c1) < FirstIdx(c2)

RowsInOrder ==
  \A c1 \in Cells : \A c2 \in Cells :
    (c1[1] = c2[1] /\ c1[2] < c2[2]) => InOrder(c1, c2)

\* C4: in every section the rows whose Work Order # is made only of digits come
\* first in ascending numeric order and the others after them, rows of equal
\* sort key keep their order of first appearance, and the sort never raises.
C4_SortedSections ==
  Built => (crafts.st = "ok" /\ RowsInOrder)

\* the order of the rows of the reports the sort did not raise on
C4_WhenReturned ==
  (Built /\ crafts.st = "ok") => RowsInOrder

\* ------------------------------------------------------ the production dates
FilterDates ==
  { IntV(Day), IntV(Day + 1), FloatLit(Day * 1000 + 500, 3), StrV(Target), StrV(NextDayText),
    StrV(<< "2", "0", "2", "3", "-", "0", "3", "-", "1", "5" >>),
    StrV(<< "3", "/", "1", "5", "/", "2", "0", "2", "3" >>),
    StrV(<< "1", "0", ":", "3", "0" >>), StrV(<< "3", "/", "1", "5", "/", "2", "3" >>),
    DateV(2023, 3, 15), DateV(2023, 3, 16), NoneV, NaN(0), Empty,
    StrV(<< "a", "b", "c" >>), NaT }

FilterPool ==
  {Row(d, Alloy, n, Order10, IntV(2), Repair, Empty, Empty) : d \in FilterDates, n \in {A, B}}

FilterFiles == {Workbook(ExpectedColSet, rs) : rs \in SeqsUpTo(FilterPool, MaxRows)}

NextFilter == Script(FilterFiles, {Target})

SpecFilter == Init /\ [][NextFilter]_vars

ExactlyMatching ==
  /\ \A i \in Matching : \E c \in Cells : SameKey(RecKey(i), CellKey(c))
  /\ \A c \in Cells :
       /\ GroupOf(c) # {}
       /\ CellRow(c)["Sum of Hours"] = PyRound(SumContributions(GroupOf(c), Zero), 2)
  /\ Matching = {} => crafts.sections = << >>

\* C5: build_report aggregates exactly the rows whose Production Date normalizes
\* to the selected date; a row of another date, or one whose date does not
\* normalize, is in no report row; a frame without rows or without a matching
\* row gives an empty report and build_report does not raise.
C5_ExactFilter ==
  Built => (crafts.st = "ok" /\ ExactlyMatching)

\* the same of the reports build_report returned
C5_WhenReturned ==
  (Built /\ crafts.st = "ok") => ExactlyMatching
====
